---- MODULE Spec2Model ----
(***************************************************************************)
(* Model of the host-side batch planner host-batcher-smart.js              *)
(* (src/unnamed/part_001, lines 1-188): one planner instance on one host,  *)
(* looping  existence check -> sizing -> packing -> stage timing ->        *)
(* dispatch -> sleep; and of the target selector and the assignment policy *)
(* of the three controllers that deploy it: controller-smart and           *)
(* controller-rooted (src/template/controller-smart.js) and                *)
(* controller-purchased (src/unnamed/part_002).                            *)
(*                                                                         *)
(* Number representation.  The source computes with IEEE doubles; the      *)
(* model computes the same expressions in exact arithmetic:                *)
(*   - yield fractions are rationals [n, d] in lowest terms;               *)
(*   - RAM is counted in hundredths of a GB (the 1% cushion of an integer  *)
(*     GB host size is then an integer);                                   *)
(*   - security deltas are counted in thousandths;                         *)
(*   - durations and instants are counted in ticks, TicksPerMs ticks to    *)
(*     the millisecond, so that stage durations may be fractional          *)
(*     milliseconds as the game returns them; start delays and clock       *)
(*     reads are whole milliseconds, as Math.round and Date.now make them. *)
(* Instants are relative to the value Date.now() returns at line 159.      *)
(***************************************************************************)
EXTENDS Integers, Sequences, FiniteSets, TLC

VARIABLES
    pc,             \* position of the planner: "head", "sleep", "backoff", "done"
    args,           \* ns.args[1], ns.args[2] as given at start (never change)
    BASE_HACK_PCT,  \* the `let` of line 25, assigned again at line 122
    exists,         \* whether ns.serverExists(target) holds
    plan,           \* the locals of the cycle that ran last (NoPlan at loop head)
    execs,          \* the ns.exec calls the cycle issued, in order
    reports,        \* number of "target missing" lines printed (line 49)
    sleepMs,        \* argument of the ns.sleep the planner is suspended in
    controller,     \* the controller script whose functions are called
    sel,            \* the last call of pickTargetsAndStrategy (NoCall if none)
    prevSel,        \* the call of pickTargetsAndStrategy before it
    targets,        \* the Strategy the current controller cycle works with
    host,           \* the host whose assignments are followed (NoHost if none)
    asg,            \* the last call of the assignment policy (NoCall if none)
    prevAsg,        \* the call of the assignment policy before it
    clock,          \* Date.now() as the controller reads it, in minutes
    serverLastDeploy, \* serverLastDeploy[host.name], 0 when not yet set
    lastGlobalBuy,  \* time of the controller's last purchase, 0 when none
    procs,          \* the scripts running on the followed host (ns.ps)
    cancelled,      \* whether a killall ended dispatched stages in flight
    baseRam,        \* the `let baseRam` of a purchased-server controller, in GB
    fleet,          \* ns.getServerMaxRam of pserv-0, pserv-1, ..: 0 if missing
    serverLastBuy,  \* serverLastBuy[pserv-i], 0 when not yet set
    cyc,            \* the controller cycle: position, `now`, index, purchases
    lastPurchase,   \* time of the last purchaseServer that succeeded, 0 if none
    wscript,        \* the single-action loop script that runs ("none" if none)
    wpc,            \* its position: "head", "sleep", "errsleep", "done"
    world,          \* what the ns queries on its target answer now
    iter,           \* the iteration that ran last (NoCall at the loop head)
    logfile,        \* /tmp/contracts.json on the host of contract-runner
    launched,       \* the ns.exec calls of the contract-runner's last cycle
    runs,           \* the last cycle of contract-runner (NoCall if none)
    hn              \* the cycle of the hacknet manager (NoCall if none)

\* the variables of a purchased-server controller's purchases
fvars == <<baseRam, fleet, serverLastBuy, cyc, lastPurchase>>

\* the variables of a single-action loop script
wvars == <<wscript, wpc, world, iter>>

\* the variables of contract-runner
kvars == <<logfile, launched, runs>>

\* the variables of the scripts followed apart from planner and deployments
ovars == <<fvars, wvars, kvars, hn>>

\* the variables of a controller's deployments on the followed host
dvars == <<clock, serverLastDeploy, lastGlobalBuy, procs, cancelled, ovars>>

\* the variables of the controllers
cvars == <<controller, sel, prevSel, targets, host, asg, prevAsg, dvars>>

\* the variables of the planner
pvars == <<pc, args, BASE_HACK_PCT, exists, plan, execs, reports, sleepMs>>

vars == <<pc, args, BASE_HACK_PCT, exists, plan, execs, reports, sleepMs,
          cvars>>

----------------------------------------------------------------------------
(* Arithmetic helpers *)

Max(a, b) == IF a >= b THEN a ELSE b

Min(a, b) == IF a <= b THEN a ELSE b

\* Math.ceil(a / b) for b > 0
CeilDiv(a, b) == -((-a) \div b)

\* Math.round(x / m) for m > 0: nearest integer, halves towards +infinity
RoundDiv(x, m) == (2 * x + m) \div (2 * m)

RECURSIVE GCD(_, _)
GCD(a, b) == IF b = 0 THEN a ELSE GCD(b, a % b)

\* the rational n / d (n >= 0, d > 0) in lowest terms
Rat(n, d) == [n |-> n \div GCD(n, d), d |-> d \div GCD(n, d)]

RatLE(a, b) == a.n * b.d <= b.n * a.d

RatLT(a, b) == a.n * b.d < b.n * a.d

RatMax(a, b) == IF RatLE(b, a) THEN a ELSE b

RatMin(a, b) == IF RatLE(a, b) THEN a ELSE b

----------------------------------------------------------------------------
(* Bounds of the model *)

\* resolution of durations: ticks per millisecond
TicksPerMs == 4

\* largest clock advance (ms) between a batch's delay computation and its dispatch
MaxLag == 1

\* an ns.exec that throws is one of the first MaxThrowAt calls of the cycle
MaxThrowAt == 2

----------------------------------------------------------------------------
(* Configuration, lines 25-35 *)

DELTA == 250

BUFFER == 1400

LOOP_DELAY == 900

BACKOFF == 1500

SEC_INC_HACK == 2

SEC_INC_GROW == 4

SEC_DEC_WEAK == 50

\* Math.random() * 400 floored is 0..399; the model draws the two extremes
JitterSet == {0, 399}

\* MIN_FREE_RAM_RATIO = 0.01: the cushion is hostMaxRam / 100
MIN_FREE_RAM_DIV == 100

\* The floor Math.max(1e-12, perHack) of lines 61, 91, 123.  A zero yield
\* makes the quotient BASE_HACK_PCT / 1e-12 about 10^10, beyond the integers
\* of the checker; the model keeps the floor but places it at 1/10000, below
\* every positive yield it draws, so that a zero yield still gives a thread
\* count far above the one of any positive yield.
PER_HACK_FLOOR == [n |-> 1, d |-> 10000]

\* a BASE_HACK_PCT taken from ns.args[1] without the ceiling of 0.25
BaseInitNoCeiling(a) ==
    IF a.hackPct.n = 0 THEN Rat(1, 50) ELSE a.hackPct

\* default and ceiling of line 25: Math.min(0.25, Number(ns.args[1]) || 0.02)
BaseInit(a) ==
    RatMin(Rat(1, 4), IF a.hackPct.n = 0 THEN Rat(1, 50) ELSE a.hackPct)

\* line 26: Math.min(0.5, Number(ns.args[2]) || 0.20)
MaxTotalInit(a) ==
    RatMin(Rat(1, 2), IF a.maxTotal.n = 0 THEN Rat(1, 5) ELSE a.maxTotal)

MAX_TOTAL_HACK_PCT == MaxTotalInit(args)

----------------------------------------------------------------------------
(* Thread sizing, lines 60-97 *)

\* Math.max(1, Math.ceil(BASE_HACK_PCT / Math.max(1e-12, perHack)))
HackThreadsFor(base, perHack) ==
    LET p == RatMax(PER_HACK_FLOOR, perHack)
    IN  Max(1, CeilDiv(base.n * p.d, base.d * p.n))

\* hackedFraction = Math.min(0.999, hackThreads * perHack)
HackedFraction(h, perHack) ==
    RatMin(Rat(999, 1000), Rat(h * perHack.n, perHack.d))

\* growthFactor = 1 / Math.max(1e-9, 1 - hackedFraction); 1 - hackedFraction
\* is at least 0.001, so the inner max never takes 1e-9
GrowthFactor(h, perHack) ==
    LET f == HackedFraction(h, perHack)
    IN  Rat(f.d, f.d - f.n)

\* 100000 * 1.03^(j/2) for j = 0 .. 48, rounded to the nearest integer
Pow103Half ==
    << 100000, 101489, 103000, 104534, 106090, 107670, 109273, 110900,
       112551, 114227, 115927, 117653, 119405, 121183, 122987, 124819,
       126677, 128563, 130477, 132420, 134392, 136393, 138423, 140484,
       142576, 144699, 146853, 149040, 151259, 153511, 155797, 158116,
       160471, 162860, 165285, 167746, 170243, 172778, 175351, 177961,
       180611, 183300, 186029, 188799, 191610, 194463, 197359, 200297,
       203279 >>

\* Math.ceil(Math.log(g) / Math.log(base)) where base = 1.03^(step/2):
\* the least k >= 0 with base^k >= g
RECURSIVE LogCeilFrom(_, _, _)
LogCeilFrom(g, step, k) ==
    IF k * step + 1 > Len(Pow103Half) THEN k
    ELSE IF Pow103Half[k * step + 1] * g.d >= 100000 * g.n THEN k
    ELSE LogCeilFrom(g, step, k + 1)

\* lines 67-73 and 127-131: ns.growthAnalyze(target, growthFactor) when it
\* answers, the Math.log estimate when it throws.  growthAnalyze is the
\* game's log(factor) / log(per-thread growth); the model's target has a
\* per-thread growth of sqrt(1.03), half the rate the fallback assumes.
GrowThreadsFor(growth, g) ==
    IF growth = "throws"
    THEN Max(1, LogCeilFrom(g, 2, 0))
    ELSE Max(1, LogCeilFrom(g, 1, 0))

\* lines 76-79: Math.max(1, Math.ceil(threads * SEC_INC / SEC_DEC_WEAK))
Weaken1For(h) == Max(1, CeilDiv(h * SEC_INC_HACK, SEC_DEC_WEAK))

Weaken2For(g) == Max(1, CeilDiv(g * SEC_INC_GROW, SEC_DEC_WEAK))

\* lines 82-97: the refined per-thread yield.  With ns.formulas.hacking
\* present and hackPercent answering fp > 0, perHack becomes fp.
RefinedPerHack(o) ==
    IF o.formulas /\ o.fp.n > 0 THEN o.fp ELSE o.perHack

----------------------------------------------------------------------------
(* Capacity packing, lines 99-156 *)

Threads(h, g, w1, w2) == [h |-> h, g |-> g, w1 |-> w1, w2 |-> w2]

\* lines 60-97: the unscaled plan.  hackedFraction and growThreads (lines
\* 65-73) and both weaken counts (lines 78-79) come from the hackThreads of
\* line 61; line 91 then recomputes hackThreads alone from the refined yield.
Sizing(base, o) ==
    LET h0 == HackThreadsFor(base, o.perHack)
        g  == GrowThreadsFor(o.growth, GrowthFactor(h0, o.perHack))
    IN  Threads(HackThreadsFor(base, RefinedPerHack(o)), g,
                Weaken1For(h0), Weaken2For(g))

\* lines 123-135: the replan of the shrink pass, all four counts recomputed
Resize(base, o) ==
    LET p == RefinedPerHack(o)
        h == HackThreadsFor(base, p)
        g == GrowThreadsFor(o.growth, GrowthFactor(h, p))
    IN  Threads(h, g, Weaken1For(h), Weaken2For(g))

\* lines 104, 136, 151
RamPerBatch(t, cost) ==
    t.h * cost.hack + t.g * cost.grow + (t.w1 + t.w2) * cost.weaken

\* line 111: if (ramPerBatch <= 0) ramPerBatch = 1   (1 GB)
RamGuard(ram) == IF ram <= 0 THEN 100 ELSE ram

\* line 109: Math.max(0, max - used - Math.max(0, max * MIN_FREE_RAM_RATIO))
FreeRam(o) ==
    Max(0, o.hostMax - o.hostUsed - Max(0, o.hostMax \div MIN_FREE_RAM_DIV))

\* lines 114, 137, 152: Math.max(1, Math.floor(freeRam / ramPerBatch))
Concurrency(free, ram) == Max(1, free \div ram)

\* a shrink pass that also runs at the cap
ExceedsOrMeetsCap(c, base, maxTotal) ==
    RatLE(maxTotal, Rat(c * base.n, base.d))

\* line 118
ExceedsCap(c, base, maxTotal) ==
    RatLT(maxTotal, Rat(c * base.n, base.d))

\* a per-batch share of the cap without its floor of 0.001
PerBatchAllowedNoFloor(c, maxTotal) == Rat(maxTotal.n, maxTotal.d * c)

\* line 120: Math.max(0.001, MAX_TOTAL_HACK_PCT / concurrency)
PerBatchAllowed(c, maxTotal) ==
    RatMax(Rat(1, 1000), Rat(maxTotal.n, maxTotal.d * c))

\* line 142
NeedsRescale(c, free, ram) == c <= 0 \/ ram > free

\* a scaleRound without its Math.max(1, .)
ScaleRoundNoFloor(v, free, ram) ==
    IF 100 * free >= ram THEN (v * free) \div ram ELSE v \div 100

\* lines 144-145: scale = Math.max(0.01, freeRam / ramPerBatch);
\* scaleRound = v => Math.max(1, Math.floor(v * scale))
ScaleRound(v, free, ram) ==
    Max(1, IF 100 * free >= ram THEN (v * free) \div ram ELSE v \div 100)

\* lines 146-150
Rescale(t, free, ram) ==
    Threads(ScaleRound(t.h, free, ram), ScaleRound(t.g, free, ram),
            ScaleRound(t.w1, free, ram), ScaleRound(t.w2, free, ram))

\* line 156: Math.max(1, Math.min(concurrency,
\*               Math.floor(Math.max(1, freeRam / Math.max(1, ramPerBatch)))))
FinalClamp(c, free, ram) ==
    Max(1, Min(c, Max(1, free \div Max(100, ram))))

\* the locals of a cycle after the sizing of lines 60-97, before line 104
Sized(base, o) ==
    [ obs         |-> o,
      base0       |-> base,
      base        |-> base,
      perHack     |-> RefinedPerHack(o),
      unscaled    |-> Sizing(base, o),
      shrunk      |-> FALSE,
      replanned   |-> Sizing(base, o),
      scaled      |-> FALSE,
      threads     |-> Sizing(base, o),
      ramPerBatch |-> 0,
      freeRam     |-> FreeRam(o),
      concurrency |-> 0 ]

\* lines 104, 136, 151: ramPerBatch recomputed from the current counts
Costed(r) ==
    [r EXCEPT !.ramPerBatch = RamPerBatch(r.threads, r.obs.cost)]

\* line 111
Guarded(r) == [r EXCEPT !.ramPerBatch = RamGuard(r.ramPerBatch)]

\* lines 114, 137, 152: concurrency recomputed from the current ramPerBatch
Packed(r) ==
    [r EXCEPT !.concurrency = Concurrency(r.freeRam, r.ramPerBatch)]

\* lines 120-135: BASE_HACK_PCT := perBatchAllowed and the four counts again
Replanned(r, b) ==
    [r EXCEPT !.base = b, !.shrunk = TRUE,
              !.replanned = Resize(b, r.obs), !.threads = Resize(b, r.obs)]

\* lines 117-139: the shrink pass
ShrinkPass(r, maxTotal) ==
    IF ExceedsCap(r.concurrency, r.base, maxTotal)
    THEN Packed(Costed(Replanned(r, PerBatchAllowed(r.concurrency, maxTotal))))
    ELSE r

\* lines 146-150
Rescaled(r) ==
    [r EXCEPT !.scaled = TRUE,
              !.threads = Rescale(r.threads, r.freeRam, r.ramPerBatch)]

\* lines 142-153: the capacity rescale
RescalePass(r) ==
    IF NeedsRescale(r.concurrency, r.freeRam, r.ramPerBatch)
    THEN Packed(Costed(Rescaled(r)))
    ELSE r

\* line 156
ClampPass(r) ==
    [r EXCEPT !.concurrency =
                  FinalClamp(r.concurrency, r.freeRam, r.ramPerBatch)]

\* lines 60-156: the locals of one cycle, from the BASE_HACK_PCT the cycle
\* starts with and the observation o it reads.  unscaled, replanned and
\* threads are the four counts after the sizing, after the shrink pass and
\* after the rescale.
ComputePlan(base, maxTotal, o) ==
    ClampPass(RescalePass(ShrinkPass(
        Packed(Guarded(Costed(Sized(base, o)))), maxTotal)))

----------------------------------------------------------------------------
(* What the planner is started with and what a cycle reads *)

\* ns.args[1], ns.args[2]; 0 stands for a missing (or falsy) argument
ArgSet ==
    { [hackPct |-> Rat(0, 1), maxTotal |-> Rat(0, 1)],
      [hackPct |-> Rat(1, 2), maxTotal |-> Rat(0, 1)] }

\* ns.hackAnalyze(target): a positive per-thread yield
PerHackSet == { Rat(1, 1000), Rat(1, 100) }

\* ns.hackAnalyze(target) of a target that yields nothing
ZeroYieldSet == { Rat(0, 1) }

\* ns.formulas.hacking absent, or present with hackPercent answering fp
FormulaSet ==
    { [formulas |-> FALSE, fp |-> Rat(0, 1)],
      [formulas |-> TRUE,  fp |-> Rat(1, 200)] }

\* ns.growthAnalyze answers or throws
GrowthSet == { "answers", "throws" }

\* ns.getServerMaxRam(host), ns.getServerUsedRam(host), in GB / 100
HostSet ==
    { [hostMax |-> 800,   hostUsed |-> 800],
      [hostMax |-> 800,   hostUsed |-> 240],
      [hostMax |-> 3200,  hostUsed |-> 240],
      [hostMax |-> 12800, hostUsed |-> 400] }

\* ns.getScriptRam of hack.js, grow.js, weaken.js, in GB / 100
CostSet == { [hack |-> 170, grow |-> 175, weaken |-> 175] }

\* ns.getHackTime, ns.getGrowTime, ns.getWeakenTime, in ticks
TimeSet ==
    { [hack |-> 1000 * TicksPerMs, grow |-> 3200 * TicksPerMs,
       weaken |-> 4000 * TicksPerMs],
      [hack |-> 1000 * TicksPerMs + 1, grow |-> 3200 * TicksPerMs + 2,
       weaken |-> 4000 * TicksPerMs + 3],
      [hack |-> 5000 * TicksPerMs, grow |-> 0,
       weaken |-> 300 * TicksPerMs + 2] }

\* The clock during the dispatch loop: Date.now() may return a later value
\* at a later read.  The model lets the clock advance once in a cycle, by
\* lag.ms milliseconds, just before the lag.pos-th ns.exec of batch 0: the
\* four reads of batch 0 (lines 167-170) return now, every later read
\* returns now + lag.ms.
LagSet ==
    { [ms |-> 0, pos |-> 1] } \cup [ms : 1 .. MaxLag, pos : 1 .. 4]

\* everything one cycle reads, with the per-thread yield drawn from Y
ObsOver(Y) ==
    { [perHack |-> p, formulas |-> f.formulas, fp |-> f.fp, growth |-> g,
       hostMax |-> h.hostMax, hostUsed |-> h.hostUsed, cost |-> c,
       time |-> t, lag |-> l] :
      p \in Y, f \in FormulaSet, g \in GrowthSet, h \in HostSet,
      c \in CostSet, t \in TimeSet, l \in LagSet }

ObsSet == ObsOver(PerHackSet)

ObsSetDegenerate == ObsOver(PerHackSet \cup ZeroYieldSet)

----------------------------------------------------------------------------
(* Stage timing and dispatch, lines 159-177 *)

\* line 57
Longest(t) == Max(t.hack, Max(t.grow, t.weaken))

\* a base instant without the safety buffer
BaseTNoBuffer(t) == Longest(t)

\* line 160, in ticks after now
BaseT(t) == Longest(t) + BUFFER * TicksPerMs

\* line 163: Math.round((b / Math.max(1, concurrency)) * (DELTA * 4)), in ms
BatchOffset(b, c) == RoundDiv(b * (DELTA * 4), Max(1, c))

\* line 164, in ticks after now
BatchT(b, c, t) == BaseT(t) + BatchOffset(b, c) * TicksPerMs

\* instant (ms after now) of the Date.now() reads of batch b, lines 167-170
ReadAt(b, lag) == IF b = 0 THEN 0 ELSE lag.ms

\* instant (ms after now) of the k-th ns.exec of batch b, lines 173-176
ExecAt(b, k, lag) == IF b = 0 /\ k < lag.pos THEN 0 ELSE lag.ms

\* Math.max(0, Math.round(finish - duration - Date.now())), in ms
StartDelay(finish, dur, read) ==
    Max(0, RoundDiv(finish - dur - read * TicksPerMs, TicksPerMs))

\* lines 167-170: the finish instant the k-th stage of a batch is timed
\* for: T, T + DELTA, T + 2 * DELTA, T + 3 * DELTA (ticks after now)
StageFinish(T, k) == T + (k - 1) * DELTA * TicksPerMs

\* line 167
HackStartDelay(T, t, read) == StartDelay(StageFinish(T, 1), t.hack, read)

\* a weaken1 timed for the finish instant of the hack stage
Weaken1StartDelayNoGap(T, t, read) ==
    StartDelay(StageFinish(T, 1), t.weaken, read)

\* line 168
Weaken1StartDelay(T, t, read) ==
    StartDelay(StageFinish(T, 2), t.weaken, read)

\* line 169
GrowStartDelay(T, t, read) == StartDelay(StageFinish(T, 3), t.grow, read)

\* line 170
Weaken2StartDelay(T, t, read) ==
    StartDelay(StageFinish(T, 4), t.weaken, read)

\* one ns.exec(script, host, threads, target, delay), issued at instant `at`
Exec(b, k, script, n, delay, at) ==
    [batch |-> b, call |-> k, script |-> script, threads |-> n,
     delay |-> delay, at |-> at]

\* lines 173-176 for batch b: the four guarded ns.exec calls, in order
BatchExecs(b, p) ==
    LET t    == p.obs.time
        lag  == p.obs.lag
        T    == BatchT(b, p.concurrency, t)
        read == ReadAt(b, lag)
        e1   == Exec(b, 1, "hack.js", p.threads.h,
                     HackStartDelay(T, t, read), ExecAt(b, 1, lag))
        e2   == Exec(b, 2, "weaken.js", p.threads.w1,
                     Weaken1StartDelay(T, t, read), ExecAt(b, 2, lag))
        e3   == Exec(b, 3, "grow.js", p.threads.g,
                     GrowStartDelay(T, t, read), ExecAt(b, 3, lag))
        e4   == Exec(b, 4, "weaken.js", p.threads.w2,
                     Weaken2StartDelay(T, t, read), ExecAt(b, 4, lag))
    IN  SelectSeq(<<e1, e2, e3, e4>>, LAMBDA e : e.threads > 0)

\* lines 161-177: the loop over b = 0 .. concurrency - 1, from batch b on
RECURSIVE DispatchFrom(_, _)
DispatchFrom(b, p) ==
    IF b >= p.concurrency THEN <<>>
    ELSE BatchExecs(b, p) \o DispatchFrom(b + 1, p)

\* a dispatch that schedules nothing when one batch does not fit the free RAM
DispatchIfFits(p) ==
    IF p.ramPerBatch > p.freeRam THEN <<>> ELSE DispatchFrom(0, p)

Dispatch(p) == DispatchFrom(0, p)

----------------------------------------------------------------------------
(* The planner loop, lines 46-187 *)

NoPlan == [none |-> TRUE]

\* no function of a controller has been called
NoCall == [none |-> TRUE]

NoTargets == [primary |-> "null", secondaries |-> <<>>]

NoHost == [name |-> <<>>, ram |-> 0]

\* nothing runs on the followed host: no planner, no dispatched batch in
\* flight, no worker thread
NoProcs == [planners |-> <<>>, inflight |-> 0, workers |-> 0]

\* no purchases are followed
FleetIdle ==
    /\ baseRam = 0
    /\ fleet = <<>>
    /\ serverLastBuy = <<>>
    /\ cyc = NoCall
    /\ lastPurchase = 0

\* no single-action loop is followed
WorkerIdle ==
    /\ wscript = "none"
    /\ wpc = "off"
    /\ world = NoCall
    /\ iter = NoCall

\* no contract-runner is followed
RunnerIdle ==
    /\ logfile = NoCall
    /\ launched = <<>>
    /\ runs = NoCall

\* no hacknet manager is followed
HacknetIdle == hn = NoCall

\* no other script is followed
OthersIdle == FleetIdle /\ WorkerIdle /\ RunnerIdle /\ HacknetIdle

\* nothing is deployed and nothing bought
HostIdle ==
    /\ clock = 0
    /\ serverLastDeploy = 0
    /\ lastGlobalBuy = 0
    /\ procs = NoProcs
    /\ cancelled = FALSE

\* no deployment is followed
DeployIdle == OthersIdle /\ HostIdle

\* no controller is modelled next to the planner
ControllerIdle ==
    /\ DeployIdle
    /\ controller = "none"
    /\ sel = NoCall
    /\ prevSel = NoCall
    /\ targets = NoTargets
    /\ host = NoHost
    /\ asg = NoCall
    /\ prevAsg = NoCall

Init ==
    /\ ControllerIdle
    /\ pc = "head"
    /\ args \in ArgSet
    /\ BASE_HACK_PCT = BaseInit(args)
    /\ exists \in BOOLEAN
    /\ plan = NoPlan
    /\ execs = <<>>
    /\ reports = 0
    /\ sleepMs = 0

\* an existence check that reports and then retries after the backoff
ExitRetries ==
    /\ pc = "head"
    /\ ~exists
    /\ reports' = reports + 1
    /\ pc' = "backoff"
    /\ sleepMs' = BACKOFF
    /\ UNCHANGED <<args, BASE_HACK_PCT, exists, plan, execs, cvars>>

\* an existence check that treats a missing target like any other error:
\* it backs off and tries again
ExitBacksOff ==
    /\ pc = "head"
    /\ ~exists
    /\ pc' = "backoff"
    /\ sleepMs' = BACKOFF
    /\ UNCHANGED <<args, BASE_HACK_PCT, exists, plan, execs, reports, cvars>>

\* lines 48-51: the existence check fails; report and return
Exit ==
    /\ pc = "head"
    /\ ~exists
    /\ reports' = reports + 1
    /\ pc' = "done"
    /\ UNCHANGED <<args, BASE_HACK_PCT, exists, plan, execs, sleepMs, cvars>>

\* lines 159-182: the batches of plan p are dispatched and the planner sleeps
DispatchAll(p, j) ==
    /\ BASE_HACK_PCT' = p.base
    /\ plan' = p
    /\ execs' = Dispatch(p)
    /\ sleepMs' = LOOP_DELAY + j

\* lines 48-182 without an exception: plan, dispatch every batch, sleep
Cycle(O) ==
    /\ pc = "head"
    /\ exists
    /\ \E o \in O, j \in JitterSet :
          DispatchAll(ComputePlan(BASE_HACK_PCT, MAX_TOTAL_HACK_PCT, o), j)
    /\ pc' = "sleep"
    /\ UNCHANGED <<args, exists, reports, cvars>>

\* lines 54-109 and 183-185: a query throws before anything is assigned
QueryThrows ==
    /\ pc = "head"
    /\ exists
    /\ pc' = "backoff"
    /\ sleepMs' = BACKOFF
    /\ UNCHANGED <<args, BASE_HACK_PCT, exists, plan, execs, reports, cvars>>

\* lines 159-176: the k-th ns.exec of the calls `all` of plan p throws
DispatchUntil(p, all, k) ==
    /\ k <= Len(all)
    /\ BASE_HACK_PCT' = p.base
    /\ plan' = p
    /\ execs' = SubSeq(all, 1, k - 1)

DispatchThrows(p, k) == DispatchUntil(p, Dispatch(p), k)

\* lines 173-176 and 183-185: the k-th ns.exec of the cycle throws, after
\* the plan was computed and the earlier calls were issued
ExecThrows(O) ==
    /\ pc = "head"
    /\ exists
    /\ \E o \in O, k \in 1 .. MaxThrowAt :
          DispatchThrows(ComputePlan(BASE_HACK_PCT, MAX_TOTAL_HACK_PCT, o), k)
    /\ pc' = "backoff"
    /\ sleepMs' = BACKOFF
    /\ UNCHANGED <<args, exists, reports, cvars>>

\* the ns.sleep of line 182 or 185 resolves and the loop starts over; while
\* the planner slept, other scripts may have deleted or created the target
Wake ==
    /\ pc \in {"sleep", "backoff"}
    /\ pc' = "head"
    /\ exists' \in BOOLEAN
    /\ plan' = NoPlan
    /\ execs' = <<>>
    /\ sleepMs' = 0
    /\ UNCHANGED <<args, BASE_HACK_PCT, reports, cvars>>

Next == Exit \/ Cycle(ObsSet) \/ QueryThrows \/ ExecThrows(ObsSet) \/ Wake

Spec == Init /\ [][Next]_vars

\* the same planner, with targets of zero per-thread yield among its targets
NextDegenerate ==
    \/ Exit
    \/ Cycle(ObsSetDegenerate)
    \/ QueryThrows
    \/ ExecThrows(ObsSetDegenerate)
    \/ Wake

SpecDegenerate == Init /\ [][NextDegenerate]_vars

----------------------------------------------------------------------------
(* The planning of lines 54-156 alone, over hosts and arguments beyond the
   ones the dispatching specifications follow: a host of 512 GB, a host of
   8 TB, a host with 9 GB free, and a per-batch fraction below 0.001 *)

\* ns.args[1] absent, or 0.0005; ns.args[2] absent
PlanArgSet ==
    { [hackPct |-> Rat(0, 1), maxTotal |-> Rat(0, 1)],
      [hackPct |-> Rat(1, 2000), maxTotal |-> Rat(0, 1)] }

\* ns.getServerMaxRam(host), ns.getServerUsedRam(host), in GB / 100
PlanHostSet ==
    { [hostMax |-> 1200,   hostUsed |-> 288],
      [hostMax |-> 51200,  hostUsed |-> 9000],
      [hostMax |-> 819200, hostUsed |-> 0] }

\* what a planning reads
PlanObsSet ==
    { [perHack |-> p, formulas |-> f.formulas, fp |-> f.fp, growth |-> g,
       hostMax |-> h.hostMax, hostUsed |-> h.hostUsed, cost |-> c,
       time |-> t, lag |-> [ms |-> 0, pos |-> 1]] :
      p \in PerHackSet, f \in FormulaSet, g \in GrowthSet,
      h \in PlanHostSet, c \in CostSet,
      t \in { [hack |-> 1000 * TicksPerMs, grow |-> 3200 * TicksPerMs,
               weaken |-> 4000 * TicksPerMs] } }

InitPlanning ==
    /\ ControllerIdle
    /\ pc = "plan"
    /\ args \in PlanArgSet
    /\ BASE_HACK_PCT = BaseInit(args)
    /\ exists = TRUE
    /\ plan = NoPlan
    /\ execs = <<>>
    /\ reports = 0
    /\ sleepMs = 0

\* lines 54-156 of one cycle: the plan is computed from what the cycle
\* reads, and line 122 leaves the shrunk fraction in BASE_HACK_PCT
PlanOnly ==
    /\ pc = "plan"
    /\ \E o \in PlanObsSet :
          /\ plan' = ComputePlan(BASE_HACK_PCT, MAX_TOTAL_HACK_PCT, o)
          /\ BASE_HACK_PCT' = plan'.base
    /\ UNCHANGED <<pc, args, exists, execs, reports, sleepMs, cvars>>

NextPlanning == PlanOnly

SpecPlanning == InitPlanning /\ [][NextPlanning]_vars

----------------------------------------------------------------------------
(* Properties *)

\* a cycle computed a plan (and ran to its sleep, or stopped at an ns.exec)
Planned == plan # NoPlan

\* a cycle ran to its sleep: every batch of its plan was dispatched
Dispatched == pc = "sleep"

\* duration (ticks) of the operation a dispatched script performs
Duration(e, t) ==
    IF e.script = "hack.js" THEN t.hack
    ELSE IF e.script = "grow.js" THEN t.grow
    ELSE t.weaken

\* completion instant (ticks after now) of a dispatched stage, when the
\* script starts exactly `delay` ms after its ns.exec and then runs for its
\* duration
Completion(e, t) == (e.at + e.delay) * TicksPerMs + Duration(e, t)

\* the k-th ns.exec of batch b among the calls of the cycle
ExecOf(b, k) ==
    CHOOSE e \in {execs[i] : i \in 1 .. Len(execs)} : e.batch = b /\ e.call = k

\* gap (ticks) between the completions of stages k and k + 1 of batch b
Gap(b, k) ==
    Completion(ExecOf(b, k + 1), plan.obs.time)
        - Completion(ExecOf(b, k), plan.obs.time)

WholeMs(t) ==
    /\ t.hack % TicksPerMs = 0
    /\ t.grow % TicksPerMs = 0
    /\ t.weaken % TicksPerMs = 0

\* C1 as stated: in every dispatched batch the four completions are in the
\* order extract, counterA, replenish, counterB and each consecutive gap is
\* exactly DELTA.
C1_GapsExactlyDelta ==
    Dispatched =>
        \A b \in 0 .. plan.concurrency - 1 : \A k \in 1 .. 3 :
            Gap(b, k) = DELTA * TicksPerMs

\* C1 amended: when every clock read and every dispatch of the cycle happens
\* at the instant `now`, the four completions of every batch are in strict
\* order and each consecutive gap differs from DELTA by less than 1 ms; the
\* gap is exactly DELTA when the three stage durations are whole milliseconds.
C1_GapsWithinOneMs ==
    Dispatched /\ plan.obs.lag.ms = 0 =>
        \A b \in 0 .. plan.concurrency - 1 : \A k \in 1 .. 3 :
            /\ Gap(b, k) > 0
            /\ Gap(b, k) > (DELTA - 1) * TicksPerMs
            /\ Gap(b, k) < (DELTA + 1) * TicksPerMs
            /\ WholeMs(plan.obs.time) => Gap(b, k) = DELTA * TicksPerMs

\* C1 witness: several batches were dispatched with fractional durations and
\* no clock advance, and a gap of the last batch is not exactly DELTA
C1_Witness ==
    /\ Dispatched
    /\ plan.obs.lag.ms = 0
    /\ plan.concurrency >= 2
    /\ ~WholeMs(plan.obs.time)
    /\ Gap(plan.concurrency - 1, 1) # DELTA * TicksPerMs

\* C2 as stated: after packing, concurrency * perBatchCapacityCost <= F
C2_NeverOversubscribes ==
    Planned => plan.concurrency * plan.ramPerBatch <= plan.freeRam

\* C3 as stated: the concurrency and BASE_HACK_PCT used for dispatch satisfy
\* concurrency * BASE_HACK_PCT <= MAX_TOTAL_HACK_PCT, up to an epsilon (taken
\* as 0.001)
C3_YieldCap ==
    Planned =>
        RatLE(Rat(plan.concurrency * BASE_HACK_PCT.n, BASE_HACK_PCT.d),
              Rat(MAX_TOTAL_HACK_PCT.n * 1000 + MAX_TOTAL_HACK_PCT.d,
                  MAX_TOTAL_HACK_PCT.d * 1000))

\* C4 as stated: no finish instant of a stage of one batch coincides with a
\* finish instant of a stage of another batch of the same cycle
C4_NoCollision ==
    Planned /\ plan.concurrency >= 2 =>
        \A b1, b2 \in 0 .. plan.concurrency - 1 : \A k1, k2 \in 1 .. 4 :
            b1 # b2 =>
                StageFinish(BatchT(b1, plan.concurrency, plan.obs.time), k1)
                  # StageFinish(BatchT(b2, plan.concurrency, plan.obs.time), k2)

AllAtLeastOne(t) ==
    /\ t.h \in Nat /\ t.h >= 1
    /\ t.g \in Nat /\ t.g >= 1
    /\ t.w1 \in Nat /\ t.w1 >= 1
    /\ t.w2 \in Nat /\ t.w2 >= 1

\* C5: in the unscaled plan, in the plan after the shrink replan and in the
\* plan after the capacity rescale, each of the four stage counts is an
\* integer >= 1
C5_CountsAtLeastOne ==
    Planned =>
        /\ AllAtLeastOne(plan.unscaled)
        /\ AllAtLeastOne(plan.replanned)
        /\ AllAtLeastOne(plan.threads)

\* C5 witness: a plan that was shrunk and then rescaled, in which the
\* rescale would have taken a count to 0 and left it at 1
C5_Witness ==
    /\ Planned
    /\ plan.shrunk
    /\ plan.scaled
    /\ plan.replanned.h > 1
    /\ plan.threads.w2 = 1
    /\ ScaleRoundNoFloor(plan.replanned.w2, plan.freeRam,
                         RamPerBatch(plan.replanned, plan.obs.cost)) = 0

\* C6 as stated: the plan of a cycle is determined by what the cycle
\* observes: it is the plan a first cycle of the same planner computes from
\* the same observation (same per-batch yield fraction, same four stage
\* counts, same concurrency), whatever the earlier cycles computed.
C6_Stateless ==
    Planned =>
        LET first == ComputePlan(BaseInit(args), MAX_TOTAL_HACK_PCT, plan.obs)
        IN  /\ plan.base = first.base
            /\ plan.threads = first.threads
            /\ plan.concurrency = first.concurrency

\* C7 as stated: in the dispatched plan counterA covers the defense raised by
\* extract and counterB the defense raised by replenish
C7_DefenseCounteracted ==
    Planned =>
        /\ plan.threads.w1 * SEC_DEC_WEAK >= plan.threads.h * SEC_INC_HACK
        /\ plan.threads.w2 * SEC_DEC_WEAK >= plan.threads.g * SEC_INC_GROW

\* C8: a failed existence check reports the missing target and ends the
\* planner: the report is printed exactly once, with the step that ends the
\* loop, that step dispatches nothing, and no step follows it.
C8_MissingTargetIsTerminal ==
    /\ [](reports = IF pc = "done" THEN 1 ELSE 0)
    /\ [][ /\ (pc = "head" /\ ~exists) =>
                (pc' = "done" /\ reports' = reports + 1 /\ execs' = execs)
           /\ pc # "done" ]_vars

\* C8 witness: the planner ran cycles (its yield fraction was shrunk by one)
\* and then ended on a failed existence check, with one report
C8_Witness ==
    /\ pc = "done"
    /\ reports = 1
    /\ ~exists
    /\ BASE_HACK_PCT # BaseInit(args)

\* C9 as stated: after an exception the planner is in the 1500 ms backoff
\* and nothing of the aborted cycle is carried into the next one: the
\* per-batch yield fraction is the one the aborted cycle started with
C9_BackoffResumesNothing ==
    pc = "backoff" =>
        /\ sleepMs = BACKOFF
        /\ Planned => BASE_HACK_PCT = plan.base0

\* C10 as stated: a cycle that observes a zero per-thread yield dispatches no
\* extract stage and dispatches a counter-defense stage
C10_NoExtractOnZeroYield ==
    Dispatched /\ plan.perHack.n = 0 =>
        /\ \A i \in 1 .. Len(execs) : execs[i].script # "hack.js"
        /\ \E i \in 1 .. Len(execs) : execs[i].script = "weaken.js"

\* the script of the k-th ns.exec of a batch, lines 173-176
StageScript(k) ==
    IF k = 1 THEN "hack.js" ELSE IF k = 3 THEN "grow.js" ELSE "weaken.js"

\* C11: a cycle that passes the existence check and runs to its sleep has a
\* final concurrency that is an integer >= 1 and issued, for each batch
\* 0 .. concurrency - 1 in turn, exactly four ns.exec calls, in the order
\* extract, counterA, replenish, counterB, each with a count >= 1; also when
\* the free RAM is 0 or less than the cost of one batch.
C11_AlwaysOneCompleteBatch ==
    Dispatched =>
        /\ plan.concurrency \in Nat
        /\ plan.concurrency >= 1
        /\ Len(execs) = 4 * plan.concurrency
        /\ \A b \in 0 .. plan.concurrency - 1 : \A k \in 1 .. 4 :
              /\ execs[4 * b + k].batch = b
              /\ execs[4 * b + k].call = k
              /\ execs[4 * b + k].script = StageScript(k)
              /\ execs[4 * b + k].threads >= 1

\* C11 witness: a cycle on a host with no free RAM at all dispatched its one
\* batch of four calls
C11_Witness ==
    /\ Dispatched
    /\ plan.freeRam = 0
    /\ plan.ramPerBatch > plan.freeRam
    /\ Len(execs) = 4

\* C12: the per-batch yield fraction in use is <= 0.25 at startup, in every
\* plan and after every shrink pass, whatever ns.args[1] and ns.args[2] are
C12_BaseAtMostCeiling ==
    /\ RatLE(BASE_HACK_PCT, Rat(1, 4))
    /\ Planned =>
          /\ RatLE(plan.base0, Rat(1, 4))
          /\ RatLE(plan.base, Rat(1, 4))

\* C12 witness: the planner was started with a fraction above the ceiling
\* and a shrink pass has since replaced the fraction in use
C12_Witness ==
    /\ Dispatched
    /\ RatLT(Rat(1, 4), args.hackPct)
    /\ plan.shrunk
    /\ BASE_HACK_PCT # BaseInit(args)

----------------------------------------------------------------------------
(* The target selector of the three controllers:                          *)
(* controller-smart     src/template/controller-smart.js lines 203-255,   *)
(*                      289-300;                                           *)
(* controller-purchased src/unnamed/part_002 lines 156-203;               *)
(* controller-rooted    src/template/controller-smart.js lines 394-441.   *)
(* Success chances are counted in percent, the dominance ratio in tenths; *)
(* a score maxMoney * chance / (1 + req / 10) is the exact rational       *)
(* [n |-> 10 * maxMoney * chance, d |-> 10 + req], not reduced.           *)

PRIMARY_DOMINANCE_RATIO == 14

MIN_HACK_CHANCE_PRIMARY == 65

MIN_HACK_CHANCE_SECONDARY == 45

\* pool size of controller-smart (line 224)
POOL == 12

Controllers == { "smart", "purchased", "rooted" }

\* what the ns queries answer for one server: ns.getServerMaxMoney,
\* ns.getServerRequiredHackingLevel, ns.hackAnalyzeChance, ns.hasRootAccess,
\* and whether the port openers and ns.nuke of autoNuke succeed on it
Server(s, maxMoney, req, chance, root, nukable) ==
    [s |-> s, maxMoney |-> maxMoney, req |-> req, chance |-> chance,
     root |-> root, nukable |-> nukable]

Home == Server("home", 0, 1, 0, TRUE, FALSE)

\* a server without money
Csec == Server("CSEC", 0, 5, 60, TRUE, FALSE)

N00dlesSet ==
    { Server("n00dles", 10, 1, 70, TRUE, FALSE),
      Server("n00dles", 10, 1, 50, TRUE, FALSE),
      Server("n00dles", 10, 1, 40, TRUE, FALSE) }

\* same money and required level as n00dles: equal scores at equal chance
FoodnstuffSet ==
    { Server("foodnstuff", 10, 1, 70, TRUE, FALSE),
      Server("foodnstuff", 10, 1, 30, TRUE, FALSE),
      Server("foodnstuff", 10, 1, 70, FALSE, TRUE) }

Zer0Set ==
    { Server("zer0", 30, 10, 80, TRUE, FALSE),
      Server("zer0", 30, 10, 30, TRUE, FALSE),
      Server("zer0", 30, 10, 50, FALSE, FALSE) }

\* the servers in the order scanAll returns them (lines 203-213), with the
\* player's hacking level ns.getHackingLevel(): at or above every required
\* level, or below the one of zer0
WorldSet ==
    { [scan |-> <<Home, a, Csec, b, c>>, level |-> 10] :
      a \in N00dlesSet, b \in FoodnstuffSet, c \in Zer0Set }
    \cup
    { [scan |-> <<Home, a, Csec, b, Server("zer0", 30, 10, 80, TRUE, FALSE)>>,
       level |-> 5] :
      a \in N00dlesSet, b \in FoodnstuffSet }

\* lines 289-300 (404-414; part_002 166-176): the port openers and ns.nuke
AutoNuke(t) ==
    IF t.s = "home" \/ t.root THEN t
    ELSE IF t.nukable THEN [t EXCEPT !.root = TRUE]
    ELSE t

\* lines 225 and 229 (424, 427; part_002 186, 189): the servers the loop of
\* pickTargetsAndStrategy does not skip before its autoNuke call
InScope(t, level) == t.s # "home" /\ t.maxMoney > 0 /\ t.req <= level

\* line 230 (428; part_002 190): the world after the loop of lines 227-237
WorldAfterPick(w) ==
    [w EXCEPT !.scan =
        [i \in DOMAIN w.scan |->
            IF InScope(w.scan[i], w.level) THEN AutoNuke(w.scan[i])
            ELSE w.scan[i]]]

\* lines 215-221: candidateScore of controller-smart
CandidateScore(t) ==
    IF t.maxMoney <= 0 \/ t.chance <= 0 THEN [n |-> 0, d |-> 1]
    ELSE [n |-> 10 * t.maxMoney * t.chance, d |-> 10 + t.req]

\* lines 416-421 (part_002 178-183): score of the other two controllers
Score(t) == [n |-> 10 * t.maxMoney * t.chance, d |-> 10 + t.req]

\* line 235: cand.push({ s, score, chance })
CandSmart(t) == [s |-> t.s, score |-> CandidateScore(t), chance |-> t.chance]

\* line 430 (part_002 192): arr.push({ s, chance, sc })
CandPlain(t) == [s |-> t.s, score |-> Score(t), chance |-> t.chance]

\* lines 231-233: controller-smart keeps a rooted server of positive chance
KeptSmart(t, level) == InScope(t, level) /\ t.root /\ t.chance > 0

\* line 429 (part_002 191): the other two keep every rooted server
KeptPlain(t, level) == InScope(t, level) /\ t.root

\* lines 227-237: cand, in scan order, read after the autoNuke calls
CandidatesSmart(w) ==
    LET kept == SelectSeq(WorldAfterPick(w).scan,
                          LAMBDA t : KeptSmart(t, w.level))
    IN  [i \in 1 .. Len(kept) |-> CandSmart(kept[i])]

\* lines 426-431 (part_002 188-193)
CandidatesPlain(w) ==
    LET kept == SelectSeq(WorldAfterPick(w).scan,
                          LAMBDA t : KeptPlain(t, w.level))
    IN  [i \in 1 .. Len(kept) |-> CandPlain(kept[i])]

\* place of c[i] after a sort by descending score that keeps equal scores
\* in their order (Array.prototype.sort is stable)
RankStable(c, i) ==
    1 + Cardinality({ j \in 1 .. Len(c) : RatLT(c[i].score, c[j].score) })
      + Cardinality({ j \in 1 .. i - 1 :
                        ~RatLT(c[i].score, c[j].score)
                        /\ ~RatLT(c[j].score, c[i].score) })

\* place of c[i] after a sort that takes equal scores in their order at the
\* first call and in the reverse order once a call has been made
RankSticky(c, i) ==
    IF sel = NoCall THEN RankStable(c, i)
    ELSE 1 + Cardinality({ j \in 1 .. Len(c) : RatLT(c[i].score, c[j].score) })
           + Cardinality({ j \in i + 1 .. Len(c) :
                             ~RatLT(c[i].score, c[j].score)
                             /\ ~RatLT(c[j].score, c[i].score) })

\* a sort whose order of equal scores depends on the calls made before
SortByScoreSticky(c) ==
    [k \in 1 .. Len(c) |-> c[CHOOSE i \in 1 .. Len(c) : RankSticky(c, i) = k]]

\* line 238 (432; part_002 194): cand.sort((a, b) => b.score - a.score)
SortByScore(c) ==
    [k \in 1 .. Len(c) |-> c[CHOOSE i \in 1 .. Len(c) : RankStable(c, i) = k]]

\* line 239: cand.slice(0, POOL); lines 433, part_002 195: arr.slice(0, 10)
Slice(c, n) == SubSeq(c, 1, Min(Len(c), n))

Names(c) == [i \in 1 .. Len(c) |-> c[i].s]

\* line 243 (436; part_002 198): top[1] || { score: 0, chance: 0 }
RunnerUp(top) ==
    IF Len(top) >= 2 THEN top[2]
    ELSE [s |-> "null", score |-> [n |-> 0, d |-> 1], chance |-> 0]

\* line 246: top1.score > top2.score * PRIMARY_DOMINANCE_RATIO
Dominates(a, b) ==
    10 * a.n * b.d > PRIMARY_DOMINANCE_RATIO * b.n * a.d

\* line 246 (437; part_002 199): the test for a single primary target
IsDominant(top) ==
    /\ top[1].chance >= MIN_HACK_CHANCE_PRIMARY
    /\ Dominates(top[1].score, RunnerUp(top).score)

Strategy(primary, secondaries) ==
    [primary |-> primary, secondaries |-> secondaries]

\* lines 252-254 of controller-smart: the pool members of decent chance
DecentChance(top) ==
    Names(SelectSeq(top, LAMBDA t : t.chance >= MIN_HACK_CHANCE_SECONDARY))

\* a decision that always makes the best-scored target the primary
DecideSmartTopOne(top) ==
    IF Len(top) = 0 THEN Strategy("null", <<>>)
    ELSE Strategy(top[1].s, Names(SubSeq(top, 2, Min(Len(top), 8))))

\* lines 241-254: the decision of controller-smart
DecideSmart(top) ==
    IF Len(top) = 0 THEN Strategy("null", <<>>)
    ELSE IF IsDominant(top)
    THEN Strategy(top[1].s, Names(SubSeq(top, 2, Min(Len(top), 8))))
    ELSE IF Len(DecentChance(top)) = 0 THEN Strategy(top[1].s, <<>>)
    ELSE Strategy("null", DecentChance(top))

\* lines 434-440 (part_002 196-202): the decision of the other two
DecidePlain(top) ==
    IF Len(top) = 0 THEN Strategy("null", <<>>)
    ELSE IF IsDominant(top) THEN Strategy(top[1].s, Names(Tail(top)))
    ELSE Strategy("null", Names(top))

\* line 239 (433; part_002 195): the pool of controller c in world w
TopOf(c, w) ==
    IF c = "smart" THEN Slice(SortByScore(CandidatesSmart(w)), POOL)
    ELSE Slice(SortByScore(CandidatesPlain(w)), 10)

\* lines 223-255 (423-441; part_002 185-203): pickTargetsAndStrategy of
\* controller c called in world w
PickTargetsAndStrategy(c, w) ==
    IF c = "smart" THEN DecideSmart(TopOf(c, w)) ELSE DecidePlain(TopOf(c, w))

\* one call of pickTargetsAndStrategy: the world it was called in, the world
\* it left, its pool and the Strategy it returned
PickCall(c, w) ==
    [controller |-> c, before |-> w, after |-> WorldAfterPick(w),
     top |-> TopOf(c, w), targets |-> PickTargetsAndStrategy(c, w)]

\* the planner is not running
PlannerOff ==
    /\ pc = "off"
    /\ args = [hackPct |-> Rat(0, 1), maxTotal |-> Rat(0, 1)]
    /\ BASE_HACK_PCT = BaseInit(args)
    /\ exists = TRUE
    /\ plan = NoPlan
    /\ execs = <<>>
    /\ reports = 0
    /\ sleepMs = 0

InitSelector ==
    /\ PlannerOff
    /\ DeployIdle
    /\ controller \in Controllers
    /\ sel = NoCall
    /\ prevSel = NoCall
    /\ targets = NoTargets
    /\ host = NoHost
    /\ asg = NoCall
    /\ prevAsg = NoCall

\* line 63 (338; part_002 55): const targets = pickTargetsAndStrategy(ns),
\* called in some world of WorldSet
Select ==
    /\ \E w \in WorldSet : sel' = PickCall(controller, w)
    /\ targets' = sel'.targets
    /\ prevSel' = sel
    /\ UNCHANGED <<controller, host, asg, prevAsg, pvars, dvars>>

NextSelector == Select

SpecSelector == InitSelector /\ [][NextSelector]_vars

----------------------------------------------------------------------------
(* Properties of the selector *)

\* a call of pickTargetsAndStrategy has been made
Selected == sel # NoCall

\* the pool member named s in the call r
Member(r, s) ==
    r.top[CHOOSE i \in 1 .. Len(r.top) : r.top[i].s = s]

\* the primary of the call r clears the primary chance and its score is more
\* than 1.4 times the runner-up's (0 when there is no runner-up)
PrimaryDominant(r) ==
    LET a == Member(r, r.targets.primary).score
        b == RunnerUp(r.top).score
    IN  /\ r.targets.primary = r.top[1].s
        /\ Member(r, r.targets.primary).chance >= 65
        /\ 10 * a.n * b.d > 14 * b.n * a.d

\* C13 as stated: in every Strategy controller-smart's selector returns with
\* primary set, the primary has chance >= 0.65 and a score greater than 1.4
\* times the runner-up's
C13_PrimaryIsDominant ==
    Selected /\ sel.controller = "smart" /\ sel.targets.primary # "null" =>
        PrimaryDominant(sel)

\* C13 amended: in every Strategy controller-smart's selector returns with
\* primary set, either the primary has chance >= 0.65 and a score greater
\* than 1.4 times the runner-up's, or no pool member has chance >= 0.45, the
\* primary is the best-scored pool member and secondaries is empty
C13_PrimaryDominantOrFallback ==
    Selected /\ sel.controller = "smart" /\ sel.targets.primary # "null" =>
        \/ PrimaryDominant(sel)
        \/ /\ \A i \in 1 .. Len(sel.top) : sel.top[i].chance < 45
           /\ sel.targets.primary = sel.top[1].s
           /\ sel.targets.secondaries = <<>>

\* C13 witness: controller-smart's selector returned a primary of chance
\* below 0.65 from a pool of several members
C13_Witness ==
    /\ Selected
    /\ sel.controller = "smart"
    /\ sel.targets.primary # "null"
    /\ Len(sel.top) >= 2
    /\ Member(sel, sel.targets.primary).chance < 65

\* C14 as stated: in each controller's selector, a Strategy without primary
\* has only secondaries of chance >= 0.45, and when no member of a non-empty
\* pool reaches 0.45 the Strategy is {primary: top1, secondaries: []}
C14_SecondariesHaveDecentChance ==
    Selected =>
        /\ sel.targets.primary = "null" =>
              \A i \in 1 .. Len(sel.targets.secondaries) :
                  Member(sel, sel.targets.secondaries[i]).chance >= 45
        /\ (Len(sel.top) > 0
              /\ \A i \in 1 .. Len(sel.top) : sel.top[i].chance < 45) =>
              sel.targets = Strategy(sel.top[1].s, <<>>)

\* what the queries of one call answer: per server in scan order its name,
\* max money, required level, chance, and the root access the call reads at
\* line 231, after its autoNuke; and the player's level
Observed(w) ==
    [scan  |-> [i \in DOMAIN w.scan |->
                  [s |-> w.scan[i].s, maxMoney |-> w.scan[i].maxMoney,
                   req |-> w.scan[i].req, chance |-> w.scan[i].chance,
                   root |-> WorldAfterPick(w).scan[i].root]],
     level |-> w.level]

----------------------------------------------------------------------------
(* The assignment policy of the three controllers:                        *)
(* controller-smart     assignTargetForServer, controller-smart.js        *)
(*                      lines 258-279;                                     *)
(* controller-purchased assignTargetForServer, part_002 lines 205-219;    *)
(* controller-rooted    assignTarget, controller-smart.js lines 443-458.  *)
(* A host name is the sequence of its characters; RAM is in GB; a value   *)
(* of Math.random() is counted in thousandths.                            *)

DigitChars == <<"0", "1", "2", "3", "4", "5", "6", "7", "8", "9">>

IsDigit(ch) == \E d \in 1 .. 10 : DigitChars[d] = ch

DigitValue(ch) == (CHOOSE d \in 1 .. 10 : DigitChars[d] = ch) - 1

\* the decimal digits of i >= 0, as a template literal `${i}` prints them
RECURSIVE DigitsOf(_)
DigitsOf(i) ==
    IF i < 10 THEN <<DigitChars[i + 1]>>
    ELSE Append(DigitsOf(i \div 10), DigitChars[(i % 10) + 1])

PservPrefix == <<"p", "s", "e", "r", "v", "-">>

\* line 72 (part_002 59): const name = `pserv-${i}`
PservName(i) == PservPrefix \o DigitsOf(i)

\* parseInt of a string of decimal digits
RECURSIVE ParseInt(_)
ParseInt(ds) ==
    IF Len(ds) = 0 THEN 0
    ELSE 10 * ParseInt(SubSeq(ds, 1, Len(ds) - 1)) + DigitValue(ds[Len(ds)])

\* last position of the run of digits that starts at position p
RunEnd(name, p) ==
    CHOOSE k \in p .. Len(name) :
        /\ \A j \in p .. k : IsDigit(name[j])
        /\ k = Len(name) \/ ~IsDigit(name[k + 1])

\* /pserv-(\d+)/ matches at position p
PservAt(name, p) ==
    /\ p + 6 <= Len(name)
    /\ SubSeq(name, p, p + 5) = PservPrefix
    /\ IsDigit(name[p + 6])

\* a match that never succeeds
MatchPservNone(name) == <<>>

\* line 274 (part_002 217): serverName.match(/pserv-(\d+)/), the captured
\* group m[1]; the empty sequence stands for no match
MatchPserv(name) ==
    IF \E p \in 1 .. Len(name) : PservAt(name, p)
    THEN LET p == CHOOSE q \in 1 .. Len(name) :
                     /\ PservAt(name, q)
                     /\ \A r \in 1 .. q - 1 : ~PservAt(name, r)
         IN  SubSeq(name, p + 6, RunEnd(name, p + 6))
    ELSE <<>>

\* line 455: server.match(/\d+/), the match m[0]: the first run of digits
MatchDigits(name) ==
    IF \E p \in 1 .. Len(name) : IsDigit(name[p])
    THEN LET p == CHOOSE q \in 1 .. Len(name) :
                     /\ IsDigit(name[q])
                     /\ \A r \in 1 .. q - 1 : ~IsDigit(name[r])
         IN  SubSeq(name, p, RunEnd(name, p))
    ELSE <<>>

\* Math.floor(Math.random() * n) for a draw r in thousandths
RandomIndex(r, n) == (r * n) \div 1000

\* values of Math.random(), in thousandths
DrawSet == { 100, 500, 900 }

\* the draws the successive Math.random() calls of one call return
DrawsSet == [1 .. 3 -> DrawSet]

Host(name, ram) == [name |-> name, ram |-> ram]

\* purchased servers: name by index, ns.getServerMaxRam in GB
PservSet ==
    { Host(PservName(0), 2048), Host(PservName(1), 512),
      Host(PservName(3), 128), Host(PservName(12), 32) }

\* rooted servers of the network, with and without digits in their names
RootedSet ==
    { Host(<<"n", "0", "0", "d", "l", "e", "s">>, 4),
      Host(<<"f", "o", "o", "d", "n", "s", "t", "u", "f", "f">>, 16),
      Host(<<"i", "r", "o", "n", "-", "g", "y", "m">>, 32),
      Host(<<"r", "u", "n", "4", "t", "h", "e", "h", "1", "1", "1", "z">>,
           512) }

\* the hosts controller c assigns targets to (lines 71-72, 340-344)
HostsOf(c) == IF c = "rooted" THEN RootedSet ELSE PservSet

\* what a call of the assignment policy returned and by which return
\* statement: "large", "mid", "small" (primary by tier or draw), "default"
\* (no secondaries), "stable" (index parsed from the name), "random"
Assigned(result, via) == [result |-> result, via |-> via]

\* a secondary always taken by a random index
SecondaryByPservRandom(name, secs, r) ==
    Assigned(secs[RandomIndex(r, Len(secs)) + 1], "random")

\* lines 273-278 (part_002 217-218): the secondary by the index parsed from
\* the name, by a random index when /pserv-(\d+)/ does not match
SecondaryByPserv(name, secs, r) ==
    IF Len(MatchPserv(name)) > 0
    THEN Assigned(secs[(ParseInt(MatchPserv(name)) % Len(secs)) + 1], "stable")
    ELSE Assigned(secs[RandomIndex(r, Len(secs)) + 1], "random")

\* lines 455-457: the same with /\d+/
SecondaryByDigits(name, secs, r) ==
    IF Len(MatchDigits(name)) > 0
    THEN Assigned(secs[(ParseInt(MatchDigits(name)) % Len(secs)) + 1], "stable")
    ELSE Assigned(secs[RandomIndex(r, Len(secs)) + 1], "random")

\* the primary returned as it is, set or not
PrimaryOrNull(t) == Assigned(t.primary, "default")

\* lines 271, 452-453 (part_002 214-215): targets.primary || "n00dles"
PrimaryOrDefault(t) ==
    Assigned(IF t.primary # "null" THEN t.primary ELSE "n00dles", "default")

\* lines 270-278 of controller-smart, r the next value of Math.random()
AfterTiersSmart(h, t, r) ==
    IF Len(t.secondaries) = 0 THEN PrimaryOrDefault(t)
    ELSE SecondaryByPserv(h.name, t.secondaries, r)

\* lines 258-279: assignTargetForServer of controller-smart.  Line 266 draws
\* only when 256 <= ram < 1024, line 267 only when 64 <= ram < 1024.
AssignSmart(h, t, rnd) ==
    IF t.primary # "null" /\ h.ram >= 1024 THEN Assigned(t.primary, "large")
    ELSE IF t.primary # "null" /\ h.ram >= 256
    THEN IF rnd[1] < 700 THEN Assigned(t.primary, "mid")
         ELSE IF rnd[2] < 350 THEN Assigned(t.primary, "small")
         ELSE AfterTiersSmart(h, t, rnd[3])
    ELSE IF t.primary # "null" /\ h.ram >= 64
    THEN IF rnd[1] < 350 THEN Assigned(t.primary, "small")
         ELSE AfterTiersSmart(h, t, rnd[2])
    ELSE AfterTiersSmart(h, t, rnd[1])

\* part_002 lines 205-219: assignTargetForServer of controller-purchased
AssignPurchased(h, t, rnd) ==
    IF t.primary # "null" /\ h.ram >= 256 THEN Assigned(t.primary, "large")
    ELSE IF t.primary # "null" /\ rnd[1] < 500
    THEN Assigned(t.primary, "small")
    ELSE IF Len(t.secondaries) = 0 THEN PrimaryOrDefault(t)
    ELSE SecondaryByPserv(h.name, t.secondaries,
                          IF t.primary # "null" THEN rnd[2] ELSE rnd[1])

\* lines 443-458: assignTarget of controller-rooted
AssignRooted(h, t, rnd) ==
    IF t.primary # "null" /\ h.ram >= 256 THEN Assigned(t.primary, "large")
    ELSE IF t.primary # "null" /\ rnd[1] < 450
    THEN Assigned(t.primary, "small")
    ELSE IF Len(t.secondaries) = 0 THEN PrimaryOrDefault(t)
    ELSE SecondaryByDigits(h.name, t.secondaries,
                           IF t.primary # "null" THEN rnd[2] ELSE rnd[1])

\* the assignment policy of controller c
AssignTarget(c, h, t, rnd) ==
    IF c = "smart" THEN AssignSmart(h, t, rnd)
    ELSE IF c = "purchased" THEN AssignPurchased(h, t, rnd)
    ELSE AssignRooted(h, t, rnd)

\* one call of the assignment policy: its arguments and what it returned
AssignCall(c, h, t, rnd) ==
    [controller |-> c, host |-> h, targets |-> t,
     result |-> AssignTarget(c, h, t, rnd).result,
     via |-> AssignTarget(c, h, t, rnd).via]

\* a world of WorldSet by the chances of n00dles, foodnstuff and zer0 and
\* the root access of zer0
WorldWith(a, b, c, root) ==
    [scan  |-> <<Home, Server("n00dles", 10, 1, a, TRUE, FALSE), Csec,
                 Server("foodnstuff", 10, 1, b, TRUE, FALSE),
                 Server("zer0", 30, 10, c, root, FALSE)>>,
     level |-> 10]

\* a network in which no server holds money: the selectors find no
\* candidate (lines 233, 437; part_002 196)
NoMoneyWorld == [scan |-> <<Home, Csec>>, level |-> 10]

\* the worlds the followed cycles select in: two orders of the same two
\* best targets, a dominant zer0, no target of decent chance, a dominant
\* n00dles with zer0 out of reach, and no candidate at all
CycleWorldSet ==
    { WorldWith(70, 70, 30, TRUE), WorldWith(50, 70, 30, TRUE),
      WorldWith(70, 70, 80, TRUE), WorldWith(40, 30, 30, TRUE),
      WorldWith(70, 30, 50, FALSE), NoMoneyWorld }

\* the Strategies the three selectors return over CycleWorldSet
StrategiesSmart ==
    { PickTargetsAndStrategy("smart", w) : w \in CycleWorldSet }

StrategiesPurchased ==
    { PickTargetsAndStrategy("purchased", w) : w \in CycleWorldSet }

StrategiesRooted ==
    { PickTargetsAndStrategy("rooted", w) : w \in CycleWorldSet }

\* the Strategies the selector of controller c returns (line 63)
StrategySet(c) ==
    IF c = "smart" THEN StrategiesSmart
    ELSE IF c = "purchased" THEN StrategiesPurchased
    ELSE StrategiesRooted

InitAssignment ==
    /\ PlannerOff
    /\ DeployIdle
    /\ controller \in Controllers
    /\ sel = NoCall
    /\ prevSel = NoCall
    /\ targets \in StrategySet(controller)
    /\ host \in HostsOf(controller)
    /\ asg = NoCall
    /\ prevAsg = NoCall

\* line 63 (338; part_002 55) of a later cycle: the Strategy is selected anew
NewCycle ==
    /\ targets' \in StrategySet(controller)
    /\ UNCHANGED <<controller, sel, prevSel, host, asg, prevAsg, pvars,
                   dvars>>

\* lines 118, 160 (353, 373; part_002 95, 130): the assignment policy is
\* called for the host with the Strategy of the cycle
Assign ==
    /\ \E rnd \in DrawsSet : asg' = AssignCall(controller, host, targets, rnd)
    /\ prevAsg' = asg
    /\ UNCHANGED <<controller, sel, prevSel, targets, host, pvars, dvars>>

NextAssignment == NewCycle \/ Assign

SpecAssignment == InitAssignment /\ [][NextAssignment]_vars

----------------------------------------------------------------------------
(* Properties of the assignment policy *)

\* the call r did not return by the primary path and had secondaries to
\* choose from
SecondaryPath(r) == r # NoCall /\ r.via \in { "stable", "random" }

\* the followed host is the purchased server pserv-N
IsPserv(N) == host.name = PservName(N)

\* C17: in controller-smart and controller-purchased, a call for the host
\* pserv-N that does not take the primary path and has a non-empty
\* secondaries list returns secondaries[N mod len(secondaries)], whatever
\* the random draws; two such calls with the same Strategy return the same
\* target
C17_PservStableIndex ==
    /\ (controller \in { "smart", "purchased" } /\ SecondaryPath(asg)) =>
          \E N \in 0 .. 99 :
              /\ IsPserv(N)
              /\ asg.result =
                    asg.targets.secondaries[
                        (N % Len(asg.targets.secondaries)) + 1]
    /\ (/\ controller \in { "smart", "purchased" }
        /\ SecondaryPath(asg)
        /\ SecondaryPath(prevAsg)
        /\ asg.targets = prevAsg.targets) =>
          asg.result = prevAsg.result

\* C17 witness: pserv-12 was twice assigned by the secondary rule from the
\* same Strategy with a primary and two secondaries
C17_Witness ==
    /\ controller \in { "smart", "purchased" }
    /\ IsPserv(12)
    /\ SecondaryPath(asg)
    /\ SecondaryPath(prevAsg)
    /\ asg.targets = prevAsg.targets
    /\ asg.targets.primary # "null"
    /\ Len(asg.targets.secondaries) = 2

\* C18 as stated: in controller-rooted, two calls for the same rooted host
\* with the same Strategy, neither taking the primary path, return the same
\* secondary target, for host names with and without digits
C18_RootedStable ==
    (/\ controller = "rooted"
     /\ SecondaryPath(asg)
     /\ SecondaryPath(prevAsg)
     /\ asg.targets = prevAsg.targets) =>
        asg.result = prevAsg.result

\* C19 as stated: in controller-smart, two calls for the same host in cycles
\* whose secondaries lists have the same length, neither taking the primary
\* path, return the same secondary target
C19_SameTargetAcrossCycles ==
    (/\ controller = "smart"
     /\ SecondaryPath(asg)
     /\ SecondaryPath(prevAsg)
     /\ Len(asg.targets.secondaries) = Len(prevAsg.targets.secondaries)) =>
        asg.result = prevAsg.result

\* C19 amended: two such calls return the element at the same index of the
\* two lists, the host's number modulo the common length; the targets are
\* the same when the two lists hold the same target at that index
C19_SameIndexAcrossCycles ==
    (/\ controller = "smart"
     /\ SecondaryPath(asg)
     /\ SecondaryPath(prevAsg)
     /\ Len(asg.targets.secondaries) = Len(prevAsg.targets.secondaries)) =>
        \E N \in 0 .. 99 :
            LET k == (N % Len(asg.targets.secondaries)) + 1
            IN  /\ IsPserv(N)
                /\ asg.result = asg.targets.secondaries[k]
                /\ prevAsg.result = prevAsg.targets.secondaries[k]
                /\ asg.targets.secondaries[k] = prevAsg.targets.secondaries[k]
                      => asg.result = prevAsg.result

\* C19 witness: a host was assigned by the secondary rule in two cycles
\* whose secondaries lists have the same length and a different order, and
\* got two different targets
C19_Witness ==
    /\ controller = "smart"
    /\ SecondaryPath(asg)
    /\ SecondaryPath(prevAsg)
    /\ Len(asg.targets.secondaries) = Len(prevAsg.targets.secondaries)
    /\ asg.targets.secondaries # prevAsg.targets.secondaries
    /\ asg.result # prevAsg.result

\* C20 as stated: in controller-smart with primary set and secondaries
\* non-empty, a mid-tier host (256 <= RAM < 1024) that the mid-tier draw does
\* not give the primary is assigned by the stable secondary rule; a host
\* below 64 GB is never assigned the primary; a host of 1024 GB or more
\* always is
C20_TierRule ==
    (/\ asg # NoCall
     /\ controller = "smart"
     /\ asg.targets.primary # "null"
     /\ Len(asg.targets.secondaries) > 0) =>
        /\ (host.ram >= 256 /\ host.ram < 1024 /\ asg.via # "mid") =>
              asg.via = "stable" /\ asg.result # asg.targets.primary
        /\ host.ram < 64 =>
              asg.via = "stable" /\ asg.result # asg.targets.primary
        /\ host.ram >= 1024 =>
              asg.via = "large" /\ asg.result = asg.targets.primary

\* the names a Strategy holds
StrategyNames(t) ==
    { t.secondaries[i] : i \in 1 .. Len(t.secondaries) } \cup
    (IF t.primary # "null" THEN { t.primary } ELSE {})

\* lines 160-164: deployHostBatcher takes its "no assigned target" branch
\* when the value the policy returned is falsy
NoAssignedTarget(r) == r.result \in { "null", "undefined", "" }

\* C21: the assignment policy always returns a target identifier: with no
\* secondaries it returns the primary if set and "n00dles" otherwise; with
\* secondaries, a call that does not return the primary returns the element
\* at an index within 0 .. len-1; so deployHostBatcher never takes its "no
\* assigned target" branch
C21_AlwaysATarget ==
    asg # NoCall =>
        /\ ~NoAssignedTarget(asg)
        /\ asg.result \in StrategyNames(asg.targets) \cup { "n00dles" }
        /\ Len(asg.targets.secondaries) = 0 =>
              asg.result = (IF asg.targets.primary # "null"
                            THEN asg.targets.primary ELSE "n00dles")
        /\ SecondaryPath(asg) =>
              \E i \in 0 .. Len(asg.targets.secondaries) - 1 :
                  asg.result = asg.targets.secondaries[i + 1]

\* C21 witness: a call with a Strategy that holds no target at all returned
\* the default "n00dles"
C21_Witness ==
    /\ asg # NoCall
    /\ asg.targets = NoTargets
    /\ asg.via = "default"
    /\ asg.result = "n00dles"

----------------------------------------------------------------------------
(* Further properties of the planner *)

\* C24: when every clock read of the cycle returns now, every start delay
\* handed to ns.exec is at least BUFFER (1400 ms): the value under the
\* max(0, .) of lines 167-170 is at least BUFFER for every stage of every
\* batch, so the clamp never changes it
C24_StartDelayAtLeastBuffer ==
    (Dispatched /\ plan.obs.lag.ms = 0) =>
        \A i \in 1 .. Len(execs) : execs[i].delay >= BUFFER

\* C24 witness: a cycle without clock lag dispatched two batches or more and
\* the longest stage of batch 0 got a start delay of exactly BUFFER
C24_Witness ==
    /\ Dispatched
    /\ plan.obs.lag.ms = 0
    /\ plan.concurrency >= 2
    /\ \E i \in 1 .. Len(execs) :
           /\ execs[i].batch = 0
           /\ execs[i].delay = BUFFER
           /\ Duration(execs[i], plan.obs.time) = Longest(plan.obs.time)

\* line 114: the concurrency of the unscaled plan, before the shrink pass
UnscaledConcurrency ==
    Concurrency(plan.freeRam,
                RamGuard(RamPerBatch(plan.unscaled, plan.obs.cost)))

\* concurrency * y0 of the unscaled plan is strictly above the aggregate cap
AboveCap ==
    UnscaledConcurrency * plan.base0.n * MAX_TOTAL_HACK_PCT.d
        > MAX_TOTAL_HACK_PCT.n * plan.base0.d

\* concurrency * y0 of the unscaled plan is exactly the aggregate cap
AtCap ==
    UnscaledConcurrency * plan.base0.n * MAX_TOTAL_HACK_PCT.d
        = MAX_TOTAL_HACK_PCT.n * plan.base0.d

\* C25: the shrink pass runs only when concurrency * y0 strictly exceeds the
\* aggregate cap; a plan at or below the cap keeps y0 and its four counts,
\* and keeps its concurrency when the rescale does not run either
C25_ShrinkOnlyAboveCap ==
    Planned =>
        /\ plan.shrunk => AboveCap
        /\ ~AboveCap =>
              /\ plan.base = plan.base0
              /\ BASE_HACK_PCT = plan.base0
              /\ plan.replanned = plan.unscaled
              /\ ~plan.scaled =>
                    /\ plan.threads = plan.unscaled
                    /\ plan.concurrency = UnscaledConcurrency

\* C25 witness: a cycle planned ten batches of y0 = 0.02 under the cap 0.20,
\* exactly at the cap, and dispatched them unshrunk
C25_Witness ==
    /\ Dispatched
    /\ AtCap
    /\ plan.base0 = Rat(1, 50)
    /\ UnscaledConcurrency = 10
    /\ ~plan.shrunk
    /\ plan.concurrency = 10
    /\ Len(execs) = 40

\* C26: when the unscaled concurrency c has c * y0 above the cap, the shrink
\* pass sets y0 to max(0.001, cap / c), recomputes the extract count as
\* max(1, ceil(y0 / perHack)) and the replenish and counter counts from it,
\* and recomputes the concurrency as max(1, floor(F / newCost))
C26_ShrinkReplans ==
    (Planned /\ AboveCap) =>
        LET c   == UnscaledConcurrency
            cap == MAX_TOTAL_HACK_PCT
            y   == plan.base
            p   == plan.perHack
            t   == plan.replanned
        IN  /\ plan.shrunk
            /\ BASE_HACK_PCT = y
            /\ IF 1000 * cap.n >= cap.d * c
               THEN y.n * cap.d * c = cap.n * y.d
               ELSE 1000 * y.n = y.d
            /\ t.h = Max(1, CeilDiv(y.n * p.d, y.d * p.n))
            /\ t.g = GrowThreadsFor(plan.obs.growth, GrowthFactor(t.h, p))
            /\ t.w1 = Max(1, CeilDiv(t.h * SEC_INC_HACK, SEC_DEC_WEAK))
            /\ t.w2 = Max(1, CeilDiv(t.g * SEC_INC_GROW, SEC_DEC_WEAK))
            /\ ~plan.scaled =>
                  plan.concurrency =
                      Max(1, plan.freeRam \div RamPerBatch(t, plan.obs.cost))

\* C26 witness: perHack 0.01, y0 0.02, cap 0.20 and an unscaled concurrency
\* of 40 gave y0 = 0.005 and an extract count of 1
C26_Witness ==
    /\ Planned
    /\ plan.obs.perHack = Rat(1, 100)
    /\ ~plan.obs.formulas
    /\ plan.base0 = Rat(1, 50)
    /\ MAX_TOTAL_HACK_PCT = Rat(1, 5)
    /\ UnscaledConcurrency = 40
    /\ plan.shrunk
    /\ plan.base = Rat(1, 200)
    /\ plan.replanned.h = 1

\* C27 as stated: in the unscaled plan the replenish count is the one that
\* restores the fraction min(0.999, extractCount * perHack) for the extract
\* count and the per-thread yield the plan finally uses, with and without
\* the refined yield
C27_UnscaledCountsConsistent ==
    Planned =>
        plan.unscaled.g =
            GrowThreadsFor(plan.obs.growth,
                           GrowthFactor(plan.unscaled.h, plan.perHack))

\* C28 as stated: the batch offsets of a cycle are 0 for batch 0, within
\* 0 .. 4 * DELTA, non-decreasing in the batch index and pairwise distinct
\* (that is, strictly increasing), for every concurrency of 2 or more
C28_OffsetsDistinct ==
    (Planned /\ plan.concurrency >= 2) =>
        LET c == plan.concurrency
        IN  /\ BatchOffset(0, c) = 0
            /\ \A b \in 0 .. c - 1 :
                   BatchOffset(b, c) >= 0 /\ BatchOffset(b, c) <= 4 * DELTA
            /\ \A b \in 0 .. c - 2 : BatchOffset(b, c) < BatchOffset(b + 1, c)

\* line 104 for one thread in each of the four stages
MinimalBatchCost(cost) == RamPerBatch(Threads(1, 1, 1, 1), cost)

\* C29 as stated: when the free capacity is at least the cost of the
\* minimal batch, the plan after the rescale fits:
\* concurrency * perBatchCapacityCost <= F
C29_FitsWhenMinimalBatchFits ==
    (Planned /\ plan.freeRam >= MinimalBatchCost(plan.obs.cost)) =>
        plan.concurrency * plan.ramPerBatch <= plan.freeRam

\* C30 as stated: BASE_HACK_PCT never exceeds the value established at
\* startup, and every shrink pass leaves it at or below its previous value
C30_BaseNeverRises ==
    /\ RatLE(BASE_HACK_PCT, BaseInit(args))
    /\ Planned => RatLE(plan.base, plan.base0)

----------------------------------------------------------------------------
(* Deployment: the per-server steps of the three controllers, followed on
   one host, next to the planners and dispatched batches running on it.
   Time is in minutes, RAM of scripts in GB / 100. *)

\* line 14 (part_002 20): 10 * 60 * 1000 ms
BUY_COOLDOWN == 10

\* line 15 (part_002 21): 2 * 60 * 1000 ms
PER_SERVER_COOLDOWN == 2

\* line 320: 60000 ms
ROOTED_SERVER_COOLDOWN == 1

\* line 321, in GB
MIN_RAM_TO_BATCH == 8

\* minutes of controller time the model follows
MaxClock == 3

\* dispatched batches the model lets be in flight on the host at once
MaxInflight == 1

\* Date.now() when the controller starts, later than any cooldown after 0
Epoch == 10

\* ns.getScriptRam("host-batcher-smart.js") (lines 181, 355)
BatcherRam == 600

\* ns.getScriptRam("worker-simple.js") (line 369)
WorkerRam == 240

\* RAM of the four scripts of one dispatched batch, a thread each
BatchRam == MinimalBatchCost(CHOOSE c \in CostSet : TRUE)

\* ns.getServerUsedRam(host)
UsedRam(p) ==
    Len(p.planners) * BatcherRam + p.inflight * BatchRam
        + p.workers * WorkerRam

\* ns.getServerMaxRam(host) - ns.getServerUsedRam(host) (lines 180, 345)
HostFreeRam(h, p) == h.ram * 100 - UsedRam(p)

\* ns.ps(name).some(p => p.filename === "host-batcher-smart.js")
Running(p) == Len(p.planners) > 0

\* the values the assignment policy of controller c can return for host h
\* and Strategy t, over the draws of Math.random()
AssignResults(c, h, t) ==
    { AssignTarget(c, h, t, rnd).result : rnd \in DrawsSet }

\* baseRam when a server is bought or upgraded, in GB
BaseRamSet == { 8, 64, 1024 }

\* the hosts the deployments are followed on; a purchased server of 0 GB
\* does not exist yet (line 73: curRam = exists ? maxRam : 0)
DeployHostSet(c) ==
    IF c = "rooted" THEN RootedSet
    ELSE { Host(PservName(1), 512), Host(PservName(12), 32),
           Host(PservName(3), 0) }

\* what a deployment leaves: the scripts on the host, serverLastDeploy and
\* whether stages in flight were ended
Deployed(p, last, c) == [procs |-> p, last |-> last, cancelled |-> c]

\* ns.killall(server): every script on the host ends, the planner and the
\* hack.js, grow.js, weaken.js it dispatched alike
KillAll(p) == NoProcs

\* whether the killall of p ends dispatched stages in flight
Cancels(p) == KillAll(p).inflight < p.inflight

\* lines 157-200: deployHostBatcher(server) with t the target line 160
\* assigned: killall, free RAM check, exec, lastDeployMap
DeployHostBatcher(h, p, last, c, t, now) ==
    IF HostFreeRam(h, KillAll(p)) < BatcherRam
    THEN Deployed(KillAll(p), last, c \/ Cancels(p))
    ELSE Deployed([KillAll(p) EXCEPT !.planners = <<t>>], now,
                  c \/ Cancels(p))

\* part_002 lines 128-148: deployBatch(server): killall, exec whose pid is
\* only logged, lastDeployMap set in either case
DeployBatch(h, p, last, c, t, now) ==
    IF HostFreeRam(h, KillAll(p)) < BatcherRam
    THEN Deployed(KillAll(p), now, c \/ Cancels(p))
    ELSE Deployed([KillAll(p) EXCEPT !.planners = <<t>>], now,
                  c \/ Cancels(p))

\* the deploy function of the purchased-server controller ctl
DeployOn(ctl, h, p, last, c, t, now) ==
    IF ctl = "smart" THEN DeployHostBatcher(h, p, last, c, t, now)
    ELSE DeployBatch(h, p, last, c, t, now)

\* the state a deployment leaves is the next state of the host
Becomes(d) ==
    /\ procs' = d.procs
    /\ serverLastDeploy' = d.last
    /\ cancelled' = d.cancelled

\* line 120: (Date.now() - deployCooldown) > PER_SERVER_COOLDOWN;
\* part_002 line 97: the same with >=
CanDeployNow(ctl, now, last) ==
    IF ctl = "smart" THEN now - last > PER_SERVER_COOLDOWN
    ELSE now - last >= PER_SERVER_COOLDOWN

InitDeploy ==
    /\ PlannerOff
    /\ controller \in Controllers
    /\ sel = NoCall
    /\ prevSel = NoCall
    /\ targets \in StrategySet(controller)
    /\ host \in DeployHostSet(controller)
    /\ asg = NoCall
    /\ prevAsg = NoCall
    /\ clock = Epoch
    /\ serverLastDeploy = 0
    /\ lastGlobalBuy = 0
    /\ procs = NoProcs
    /\ cancelled = FALSE
    /\ OthersIdle

\* time passes
Tick ==
    /\ clock < Epoch + MaxClock
    /\ clock' = clock + 1
    /\ UNCHANGED <<controller, sel, prevSel, targets, host, asg, prevAsg,
                   serverLastDeploy, lastGlobalBuy, procs, cancelled, pvars,
                   ovars>>

\* lines 76-78 (part_002 63-64): canBuyGlobal && canBuyServer.  The two
\* stamps are set together at every purchase of the followed server and
\* lastGlobalBuy is the later one, so its cooldown, the longer, decides.
CanBuy(now, last) == now - last >= BUY_COOLDOWN

\* lines 84-97 (part_002 69-78): the server does not exist and is bought at
\* baseRam = r, then deployed on; a purchase that fails changes nothing
Buy ==
    /\ controller \in { "smart", "purchased" }
    /\ host.ram = 0
    /\ CanBuy(clock, lastGlobalBuy)
    /\ lastGlobalBuy' = clock
    /\ \E r \in BaseRamSet :
          /\ host' = Host(host.name, r)
          /\ \E t \in AssignResults(controller, host', targets) :
                Becomes(DeployOn(controller, host', procs, serverLastDeploy,
                                 cancelled, t, clock))
    /\ UNCHANGED <<controller, sel, prevSel, targets, asg, prevAsg, clock,
                   pvars, ovars>>

\* lines 100-114 (part_002 81-92): the server is below baseRam = r, the
\* purchase is affordable and off cooldown: killall, deleteServer,
\* purchaseServer, deploy.  When the purchase fails the server is gone and
\* the deploy function throws at its first query and returns.
Upgrade ==
    /\ controller \in { "smart", "purchased" }
    /\ host.ram > 0
    /\ CanBuy(clock, lastGlobalBuy)
    /\ lastGlobalBuy' = clock
    /\ \E r \in BaseRamSet, ok \in BOOLEAN :
          /\ host.ram < r
          /\ IF ok
             THEN /\ host' = Host(host.name, r)
                  /\ \E t \in AssignResults(controller, host', targets) :
                        Becomes(DeployOn(controller, host', KillAll(procs),
                                         serverLastDeploy,
                                         cancelled \/ Cancels(procs),
                                         t, clock))
             ELSE /\ host' = Host(host.name, 0)
                  /\ Becomes(Deployed(KillAll(procs), serverLastDeploy,
                                      cancelled \/ Cancels(procs)))
    /\ UNCHANGED <<controller, sel, prevSel, targets, asg, prevAsg, clock,
                   pvars, ovars>>

\* lines 116-138 (part_002 94-107): the server is at baseRam.  It is
\* deployed on when no planner runs on it, and killed and deployed on again
\* when the first planner found runs for another target than the one
\* assigned now, each only off cooldown; the deploy function assigns again.
Redeploy ==
    /\ controller \in { "smart", "purchased" }
    /\ host.ram > 0
    /\ \E assigned \in AssignResults(controller, host, targets),
          t \in AssignResults(controller, host, targets) :
          IF /\ CanDeployNow(controller, clock, serverLastDeploy)
             /\ \/ ~Running(procs)
                \/ procs.planners[1] # assigned
          THEN Becomes(DeployOn(controller, host,
                                IF Running(procs) THEN KillAll(procs)
                                ELSE procs,
                                serverLastDeploy,
                                cancelled \/ (Running(procs) /\ Cancels(procs)),
                                t, clock))
          ELSE UNCHANGED <<serverLastDeploy, procs, cancelled>>
    /\ UNCHANGED <<controller, sel, prevSel, targets, host, asg, prevAsg,
                   clock, lastGlobalBuy, pvars, ovars>>

\* ns.exec("host-batcher-smart.js", server, 1, tgt, pct) of line 361: it
\* starts an instance when the RAM is free; when an instance with the same
\* arguments runs, the game refuses (dup false) or starts a second one (dup
\* true), by version
ExecPlanner(p, t, dup) ==
    IF (\E i \in 1 .. Len(p.planners) : p.planners[i] = t) /\ ~dup
    THEN p
    ELSE [p EXCEPT !.planners = Append(p.planners, t)]

\* lines 344-383: controller-rooted visits the rooted host off cooldown.
\* With 8 GB free on a host of 8 GB or more it starts a planner for the
\* assigned target; otherwise it fills the free RAM with worker-simple.js
\* threads.  serverLastDeploy is set when the exec returned a pid.
DeployRooted ==
    /\ controller = "rooted"
    /\ host.ram >= 2
    /\ clock - serverLastDeploy >= ROOTED_SERVER_COOLDOWN
    /\ \E tgt \in AssignResults(controller, host, targets), dup \in BOOLEAN :
          LET free == HostFreeRam(host, procs)
          IN  IF free >= MIN_RAM_TO_BATCH * 100 /\ host.ram >= 8
              THEN IF free < BatcherRam
                   THEN UNCHANGED <<procs, serverLastDeploy>>
                   ELSE /\ procs' = ExecPlanner(procs, tgt, dup)
                        /\ serverLastDeploy' =
                              IF procs' # procs THEN clock
                              ELSE serverLastDeploy
              ELSE IF free >= WorkerRam
                   THEN /\ procs' = [procs EXCEPT !.workers =
                                        @ + Max(1, free \div WorkerRam)]
                        /\ serverLastDeploy' = clock
                   ELSE UNCHANGED <<procs, serverLastDeploy>>
    /\ UNCHANGED <<controller, sel, prevSel, targets, host, asg, prevAsg,
                   clock, lastGlobalBuy, cancelled, pvars, ovars>>

\* part_001 lines 172-177: a planner running on the host dispatches a batch
\* onto the host; the scripts start when their RAM is free
PlannerDispatches ==
    /\ Running(procs)
    /\ procs.inflight < MaxInflight
    /\ HostFreeRam(host, procs) >= BatchRam
    /\ procs' = [procs EXCEPT !.inflight = @ + 1]
    /\ UNCHANGED <<controller, sel, prevSel, targets, host, asg, prevAsg,
                   clock, serverLastDeploy, lastGlobalBuy, cancelled, pvars,
                   ovars>>

\* the stages of a dispatched batch run to completion
BatchCompletes ==
    /\ procs.inflight > 0
    /\ procs' = [procs EXCEPT !.inflight = @ - 1]
    /\ UNCHANGED <<controller, sel, prevSel, targets, host, asg, prevAsg,
                   clock, serverLastDeploy, lastGlobalBuy, cancelled, pvars,
                   ovars>>

\* part_001 lines 48-51: the planner started first finds its target
\* missing and returns
PlannerExits ==
    /\ Running(procs)
    /\ procs' = [procs EXCEPT !.planners = Tail(@)]
    /\ UNCHANGED <<controller, sel, prevSel, targets, host, asg, prevAsg,
                   clock, serverLastDeploy, lastGlobalBuy, cancelled, pvars,
                   ovars>>

NextDeploy ==
    \/ NewCycle
    \/ Tick
    \/ Buy
    \/ Upgrade
    \/ Redeploy
    \/ DeployRooted
    \/ PlannerDispatches
    \/ BatchCompletes
    \/ PlannerExits

SpecDeploy == InitDeploy /\ [][NextDeploy]_vars

----------------------------------------------------------------------------
(* Properties of the deployments *)

\* C22 as stated: at every moment the host runs at most one planner
\* instance: no controller starts a planner on a host where one still runs
C22_OnePlannerPerHost == Len(procs.planners) <= 1

\* C23 as stated: no action of a controller ends a dispatched stage that is
\* in flight
C23_NoStageCancelled == ~cancelled

----------------------------------------------------------------------------
(* Termination of the planner loop.  The loop of lines 46-187 has no await
   but its two ns.sleep calls, and the game resolves every ns.sleep and runs
   the continuation of every script: the wake-up and the existence check at
   the head of the loop are weakly fair. *)

SpecLive == Init /\ [][Next]_vars /\ WF_vars(Exit) /\ WF_vars(Wake)

\* C31: if from some point on the target never exists again, the planner
\* eventually returns from main; and the backoff that follows a thrown query
\* or ns.exec always leads back to the existence check at the head of the
\* loop, so that an error raised in the middle of a cycle ends the same way
C31_EventuallyTerminates ==
    /\ (<>[](~exists)) => <>(pc = "done")
    /\ (pc = "backoff") ~> (pc = "head")

\* C31 witness: an ns.exec threw in the middle of a cycle, after an earlier
\* call of the cycle was issued, and the planner is in the backoff
C31_Witness ==
    /\ pc = "backoff"
    /\ sleepMs = BACKOFF
    /\ Len(execs) > 0

----------------------------------------------------------------------------
(* Further properties of the deployments *)

\* C32 as stated: when the redeploy step of controller-smart kills a running
\* planner and starts one in its place, the planner started runs for another
\* target than the planner killed
C32_RestartChangesTarget ==
    [][(/\ Redeploy
        /\ controller = "smart"
        /\ Running(procs)
        /\ Running(procs')
        /\ serverLastDeploy' # serverLastDeploy)
          => procs'.planners[1] # procs.planners[1]]_vars

----------------------------------------------------------------------------
(* Purchases: the cycle of a purchased-server controller over its servers
   pserv-0, pserv-1, .. (controller-smart.js lines 51-154, part_002 lines
   43-124), with baseRam and the purchase cooldowns.  Time is in minutes. *)

\* line 16 (part_002 22), in GB
INITIAL_RAM == 8

\* line 17 (part_002 23), in GB
MAX_RAM_CAP == 2048

\* ns.getPurchasedServerLimit() (line 41; part_002 34)
FleetLimit == 2

\* minutes of controller time the purchases are followed for
MaxFleetClock == 10

\* the indices i of the loop of line 71 (part_002 58)
Servers == 0 .. FleetLimit - 1

\* capacities the servers start with, in GB: missing, bought at the initial
\* baseRam, bought by hand at 64 GB or at the cap
FleetRamSet == { 0, 8, 64, 2048 }

\* an auto-scale test that holds of an empty list of servers, as
\* Array.prototype.every alone does
PurchasedServersHaveVacuous(f, ram) ==
    \A i \in DOMAIN f : f[i] > 0 => f[i] >= ram

\* lines 282-286 (part_002 150-153): some purchased server exists and every
\* purchased server has at least `ram`
PurchasedServersHave(f, ram) ==
    /\ \E i \in DOMAIN f : f[i] > 0
    /\ \A i \in DOMAIN f : f[i] > 0 => f[i] >= ram

\* lines 144-147: baseRam = Math.min(baseRam * 2, MAX_RAM_CAP);
\* part_002 113-116: baseRam *= 2
ScaledRam(ctl, f, ram) ==
    IF PurchasedServersHave(f, ram) /\ ram < MAX_RAM_CAP
    THEN IF ctl = "smart" THEN Min(ram * 2, MAX_RAM_CAP) ELSE ram * 2
    ELSE ram

\* the cycle is in its sleep of 5 s (lines 149, 152), in the loop over the
\* servers at index i, or before the auto-scale of line 144; `now` is the
\* const of line 53 and `bought` counts the purchases that succeeded
Cyc(at, now, i, bought) ==
    [at |-> at, now |-> now, i |-> i, bought |-> bought]

\* lines 71, 96, 113, 140: on to the next server, or out of the loop
Advance(c) ==
    [c EXCEPT !.i = @ + 1,
              !.at = IF c.i + 1 = FleetLimit THEN "scale" ELSE "loop"]

\* lines 76-78 (part_002 63-64): canBuyGlobal && canBuyServer, on `now`
CanBuyNow(i) ==
    /\ cyc.now - lastGlobalBuy >= BUY_COOLDOWN
    /\ cyc.now - serverLastBuy[i] >= PER_SERVER_COOLDOWN

\* the variables the purchases leave alone
FleetRest ==
    <<pvars, controller, sel, prevSel, targets, host, asg, prevAsg,
      serverLastDeploy, procs, cancelled, wvars, kvars, hn>>

InitFleet ==
    /\ PlannerOff
    /\ controller \in { "smart", "purchased" }
    /\ sel = NoCall
    /\ prevSel = NoCall
    /\ targets = NoTargets
    /\ host = NoHost
    /\ asg = NoCall
    /\ prevAsg = NoCall
    /\ clock = Epoch
    /\ serverLastDeploy = 0
    /\ lastGlobalBuy = 0
    /\ procs = NoProcs
    /\ cancelled = FALSE
    /\ baseRam = INITIAL_RAM
    /\ fleet \in [Servers -> FleetRamSet]
    /\ serverLastBuy = [i \in Servers |-> 0]
    /\ cyc = Cyc("sleep", 0, 0, 0)
    /\ lastPurchase = 0
    /\ WorkerIdle
    /\ RunnerIdle
    /\ HacknetIdle

\* time passes, also between the steps of a cycle (the awaits of the loop)
TickFleet ==
    /\ clock < Epoch + MaxFleetClock
    /\ clock' = clock + 1
    /\ UNCHANGED <<lastGlobalBuy, fvars, FleetRest>>

\* lines 51-53 (part_002 43-45): a cycle starts and reads Date.now()
BeginCycle ==
    /\ cyc.at = "sleep"
    /\ cyc' = Cyc("loop", clock, 0, 0)
    /\ UNCHANGED <<clock, lastGlobalBuy, baseRam, fleet, serverLastBuy,
                   lastPurchase, FleetRest>>

\* the stamps of lines 88-89, 107-108 (part_002 73-74, 87-88)
Stamped(i) ==
    /\ serverLastBuy' = [serverLastBuy EXCEPT ![i] = clock]
    /\ lastGlobalBuy' = clock

\* lines 84-97 (part_002 69-78): pserv-i does not exist.  Affordable and off
\* cooldown, ns.purchaseServer is called; controller-smart stamps the
\* purchase when it returned a name, controller-purchased in either case.
FleetBuy ==
    /\ cyc.at = "loop"
    /\ fleet[cyc.i] = 0
    /\ \E afford \in BOOLEAN, ok \in BOOLEAN :
          IF afford /\ CanBuyNow(cyc.i)
          THEN /\ fleet' = IF ok THEN [fleet EXCEPT ![cyc.i] = baseRam]
                           ELSE fleet
               /\ IF ok \/ controller = "purchased"
                  THEN Stamped(cyc.i)
                  ELSE UNCHANGED <<serverLastBuy, lastGlobalBuy>>
               /\ lastPurchase' = IF ok THEN clock ELSE lastPurchase
               /\ cyc' = [Advance(cyc) EXCEPT
                             !.bought = @ + (IF ok THEN 1 ELSE 0)]
          ELSE /\ cyc' = Advance(cyc)
               /\ UNCHANGED <<fleet, serverLastBuy, lastGlobalBuy,
                              lastPurchase>>
    /\ UNCHANGED <<clock, baseRam, FleetRest>>

\* lines 100-114 (part_002 81-92): pserv-i is below baseRam.  Affordable and
\* off cooldown: ns.killall, ns.deleteServer, ns.purchaseServer, whose
\* result is not looked at, and the stamps.
FleetUpgrade ==
    /\ cyc.at = "loop"
    /\ fleet[cyc.i] > 0
    /\ fleet[cyc.i] < baseRam
    /\ \E afford \in BOOLEAN, ok \in BOOLEAN :
          IF afford /\ CanBuyNow(cyc.i)
          THEN /\ fleet' = [fleet EXCEPT ![cyc.i] = IF ok THEN baseRam ELSE 0]
               /\ Stamped(cyc.i)
               /\ lastPurchase' = IF ok THEN clock ELSE lastPurchase
               /\ cyc' = [Advance(cyc) EXCEPT
                             !.bought = @ + (IF ok THEN 1 ELSE 0)]
          ELSE /\ cyc' = Advance(cyc)
               /\ UNCHANGED <<fleet, serverLastBuy, lastGlobalBuy,
                              lastPurchase>>
    /\ UNCHANGED <<clock, baseRam, FleetRest>>

\* lines 116-140 (part_002 94-109): pserv-i is at baseRam: the redeploy
\* step, which buys nothing
FleetKeep ==
    /\ cyc.at = "loop"
    /\ fleet[cyc.i] >= baseRam
    /\ cyc' = Advance(cyc)
    /\ UNCHANGED <<clock, lastGlobalBuy, baseRam, fleet, serverLastBuy,
                   lastPurchase, FleetRest>>

\* lines 143-149 (part_002 112-118): the auto-scale at the end of the cycle
AutoScale ==
    /\ cyc.at = "scale"
    /\ baseRam' = ScaledRam(controller, fleet, baseRam)
    /\ cyc' = Cyc("sleep", 0, 0, 0)
    /\ UNCHANGED <<clock, lastGlobalBuy, fleet, serverLastBuy, lastPurchase,
                   FleetRest>>

\* lines 150-153 (part_002 120-123): a call of the loop throws; the cycle
\* ends in the catch block, without the auto-scale
CycleThrows ==
    /\ cyc.at = "loop"
    /\ cyc' = Cyc("sleep", 0, 0, 0)
    /\ UNCHANGED <<clock, lastGlobalBuy, baseRam, fleet, serverLastBuy,
                   lastPurchase, FleetRest>>

NextFleet ==
    \/ TickFleet
    \/ BeginCycle
    \/ FleetBuy
    \/ FleetUpgrade
    \/ FleetKeep
    \/ AutoScale
    \/ CycleThrows

SpecFleet == InitFleet /\ [][NextFleet]_vars

\* the purchases of a cycle: at most one succeeds
FleetOnePurchasePerCycle == cyc.bought <= 1

\* a purchase succeeds only BUY_COOLDOWN after the one before it
FleetPurchasesSpaced ==
    [][cyc'.bought > cyc.bought
          => \/ lastPurchase = 0
             \/ clock - lastPurchase >= BUY_COOLDOWN]_vars

\* two purchases succeeded, BUY_COOLDOWN apart
FleetTwoPurchases ==
    /\ lastPurchase >= Epoch + BUY_COOLDOWN
    /\ cyc.bought = 1

----------------------------------------------------------------------------
(* Properties of the cooldowns, of baseRam and of the upgrade *)

\* C33 as stated: controller-smart deploys anew on a host whose planner
\* runs only PER_SERVER_COOLDOWN or more after the host's last successful
\* deploy, and a purchase or upgrade of the host succeeds only BUY_COOLDOWN
\* or more after the purchase before it
C33_CooldownsRespected ==
    [][/\ (/\ controller = "smart"
           /\ Redeploy \/ Upgrade
           /\ Running(procs)
           /\ Running(procs'))
             => clock - serverLastDeploy >= PER_SERVER_COOLDOWN
       /\ (controller = "smart" /\ host'.ram > host.ram)
             => clock - lastGlobalBuy >= BUY_COOLDOWN]_vars

\* C34: in both purchased-server controllers baseRam is a power of two from
\* 8 to 2048 in every reachable state, no step lowers it, and a step that
\* changes it doubles it, at the end of a cycle, when some purchased server
\* exists and every purchased server has at least baseRam
C34_BaseRamDoubling ==
    /\ [](baseRam \in { 2 ^ k : k \in 3 .. 11 })
    /\ [][/\ baseRam' >= baseRam
          /\ baseRam' # baseRam =>
                /\ baseRam' = 2 * baseRam
                /\ cyc.at = "scale"
                /\ \E i \in Servers : fleet[i] > 0
                /\ \A i \in Servers : fleet[i] > 0 => fleet[i] >= baseRam]_vars

\* C34 witness: controller-purchased doubled baseRam up to the cap and
\* bought a server
C34_Witness ==
    /\ controller = "purchased"
    /\ baseRam = MAX_RAM_CAP
    /\ lastPurchase > 0

\* C35 as stated: the upgrade step never loses a server: after the step
\* pserv-i exists, with at least the capacity it had before
C35_UpgradeKeepsServer ==
    [][FleetUpgrade =>
          /\ fleet'[cyc.i] > 0
          /\ fleet'[cyc.i] >= fleet[cyc.i]]_vars

----------------------------------------------------------------------------
(* The single-action loops: worker.js, tiny-worker.js, grow-loop.js,
   weaken-loop.js (controller-smart.js lines 461-498) and worker-simple.js
   (part_000).  Security levels are in tenths, money in units of which the
   largest maxMoney has 100, the per-thread yield of ns.hackAnalyze in
   1/10000, chances in percent, Math.random() in thousandths. *)

WorkerScripts ==
    { "worker", "tiny-worker", "grow-loop", "weaken-loop", "worker-simple" }

\* worker.js line 19: SEC_MARGIN 2.0
SEC_MARGIN == 20

\* worker.js line 20: GROW_PCT 0.85
GROW_PCT == 85

\* worker.js line 21: HACK_SAFE_PCT 0.90
HACK_SAFE_PCT == 90

\* worker.js line 22: DESIRED_HACK_FRACTION 0.02
DESIRED_HACK_FRACTION == 200

\* worker.js line 23: MIN_HACK_CHANCE 0.20
MIN_HACK_CHANCE == 20

\* worker.js line 26; part_000 line 36
ERROR_SLEEP_MS == 5000

\* tiny-worker.js line 66, grow-loop.js line 35, weaken-loop.js line 41
LOOP_ERROR_SLEEP_MS == 2000

\* the sleep of the catch block of script s
ErrorSleep(s) ==
    IF s \in { "worker", "worker-simple" } THEN ERROR_SLEEP_MS
    ELSE LOOP_ERROR_SLEEP_MS

\* what the queries of an iteration answer: ns.serverExists,
\* ns.getServerSecurityLevel, ns.getServerMinSecurityLevel,
\* ns.getServerMoneyAvailable, ns.getServerMaxMoney, ns.hackAnalyze,
\* ns.hackAnalyzeChance
Snapshot(e, sec, minSec, money, maxMoney, steal, chance) ==
    [exists |-> e, sec |-> sec, minSec |-> minSec, money |-> money,
     maxMoney |-> maxMoney, steal |-> steal, chance |-> chance]

\* the target is missing
MissingTarget == Snapshot(FALSE, 0, 0, 0, 0, 0, 0)

\* targets at, slightly above, more than 2.0 and more than 3.0 above their
\* minimum security; without money, and with half, 82 %, 87 %, 93 % and all
\* of it; with no yield, a small and a large yield per thread; with chances
\* of 0, 0.10, 0.15 and 0.50
WorkerWorldSet ==
    { MissingTarget } \cup
    { Snapshot(TRUE, sec, 10, m[1], m[2], steal, chance) :
        sec \in { 10, 16, 31, 41 },
        m \in { <<0, 0>>, <<50, 100>>, <<82, 100>>, <<87, 100>>,
                <<93, 100>>, <<100, 100>> },
        steal \in { 0, 1, 200 },
        chance \in { 0, 10, 15, 50 } }

\* Math.random() of worker.js line 134
RollSet == { 0, 500, 950 }

\* p.threads of worker.js line 52
ThreadSet == { 1, 100, 300 }

\* sec > minSec + margin
SecHigh(w, margin) == w.sec > w.minSec + margin

\* money < maxMoney * pct
MoneyBelow(w, pct) == w.money * 100 < w.maxMoney * pct

\* a chance test that lets every chance through
ChanceTooLowNever(w) == FALSE

\* worker.js line 108: hackChance < CFG.MIN_HACK_CHANCE
ChanceTooLow(w) == w.chance < MIN_HACK_CHANCE

\* worker.js lines 124-135: roll < hackProb, with hackProb =
\* min(1, desiredTotalHackThreads / threadsRunning), times 0.9 above 200
\* threads
RollsHack(w, roll, threads) ==
    LET threadsRunning == Max(1, threads)
        desired == Max(1, CeilDiv(DESIRED_HACK_FRACTION, w.steal))
        n == IF desired >= threadsRunning THEN 1 ELSE desired
        d == IF desired >= threadsRunning THEN 1 ELSE threadsRunning
        f == IF threadsRunning > 200 THEN 9 ELSE 10
    IN  roll * 10 * d < 1000 * f * n

\* worker.js lines 72-159: the call of the iteration, "sleep" when it only
\* sleeps
WorkerAct(w, roll, threads) ==
    IF SecHigh(w, SEC_MARGIN) THEN "weaken"
    ELSE IF MoneyBelow(w, GROW_PCT) THEN "grow"
    ELSE IF w.steal <= 0 \/ w.chance <= 0 THEN "weaken"
    ELSE IF ChanceTooLow(w) THEN "weaken"
    ELSE IF MoneyBelow(w, HACK_SAFE_PCT) THEN "grow"
    ELSE IF RollsHack(w, roll, threads) THEN "hack"
    ELSE IF MoneyBelow(w, 97) THEN "grow"
    ELSE IF SecHigh(w, 5) THEN "weaken"
    ELSE "sleep"

\* tiny-worker.js lines 39-60
TinyAct(w) ==
    IF SecHigh(w, 20) THEN "weaken"
    ELSE IF MoneyBelow(w, 85) THEN "grow"
    ELSE IF w.chance <= 10 THEN "weaken"
    ELSE "hack"

\* part_000 lines 20-31
SimpleAct(w) ==
    IF SecHigh(w, 30) THEN "weaken"
    ELSE IF MoneyBelow(w, 80) THEN "grow"
    ELSE "hack"

\* the call an iteration of script s issues
Act(s, w, roll, threads) ==
    CASE s = "worker" -> WorkerAct(w, roll, threads)
      [] s = "tiny-worker" -> TinyAct(w)
      [] s = "worker-simple" -> SimpleAct(w)
      [] s = "grow-loop" -> "grow"
      [] s = "weaken-loop" -> "weaken"

\* the calls of ns.hack, ns.grow and ns.weaken of an iteration, in order
Ops(act) == IF act = "sleep" THEN <<>> ELSE <<act>>

\* an iteration: what it read, the calls it issued, whether it ended in the
\* catch block, and the sleep of the catch block
Iteration(snap, ops, threw, sleep) ==
    [snap |-> snap, ops |-> ops, threw |-> threw, sleep |-> sleep]

\* no controller is followed
ControllersOff ==
    /\ HostIdle
    /\ controller = "none"
    /\ sel = NoCall
    /\ prevSel = NoCall
    /\ targets = NoTargets
    /\ host = NoHost
    /\ asg = NoCall
    /\ prevAsg = NoCall

\* the variables the loops leave alone
WorkerRest == <<pvars, controller, sel, prevSel, targets, host, asg, prevAsg,
                clock, serverLastDeploy, lastGlobalBuy, procs, cancelled,
                fvars, kvars, hn>>

InitWorkers ==
    /\ PlannerOff
    /\ ControllersOff
    /\ FleetIdle
    /\ RunnerIdle
    /\ HacknetIdle
    /\ wscript \in WorkerScripts
    /\ wpc = "head"
    /\ world \in WorkerWorldSet
    /\ iter = NoCall

\* an iteration that ends the script
WorkerThrowsAndEnds ==
    /\ wpc = "head"
    /\ world.exists \/ wscript = "worker-simple"
    /\ iter' = Iteration(world, <<>>, TRUE, 0)
    /\ wpc' = "done"
    /\ UNCHANGED <<wscript, world, WorkerRest>>

\* the existence check at the top of an iteration fails: print and return
\* (worker.js 67-70, tiny-worker.js 34-37, grow-loop.js 23-26, weaken-loop
\* 489-492); worker-simple.js has no such check
WorkerExit ==
    /\ wpc = "head"
    /\ wscript # "worker-simple"
    /\ ~world.exists
    /\ wpc' = "done"
    /\ UNCHANGED <<wscript, world, iter, WorkerRest>>

\* an iteration without an exception: one call, or a sleep, then the pause
WorkerIterate ==
    /\ wpc = "head"
    /\ world.exists
    /\ \E roll \in RollSet, threads \in ThreadSet :
          iter' = Iteration(world, Ops(Act(wscript, world, roll, threads)),
                            FALSE, 0)
    /\ wpc' = "sleep"
    /\ UNCHANGED <<wscript, world, WorkerRest>>

\* a query, or the call of the iteration, or a call after it throws: the
\* catch block prints and sleeps.  In worker-simple.js the queries of a
\* missing target throw.
WorkerThrows ==
    /\ wpc = "head"
    /\ world.exists \/ wscript = "worker-simple"
    /\ \E roll \in RollSet, threads \in ThreadSet, called \in BOOLEAN :
          iter' = Iteration(world,
                            IF called /\ world.exists
                            THEN Ops(Act(wscript, world, roll, threads))
                            ELSE <<>>,
                            TRUE, ErrorSleep(wscript))
    /\ wpc' = "errsleep"
    /\ UNCHANGED <<wscript, world, WorkerRest>>

\* the sleep ends and the next iteration starts; meanwhile the target has
\* changed, or was deleted or created
WorkerWake ==
    /\ wpc \in { "sleep", "errsleep" }
    /\ wpc' = "head"
    /\ world' \in WorkerWorldSet
    /\ iter' = NoCall
    /\ UNCHANGED <<wscript, WorkerRest>>

NextWorkers == WorkerExit \/ WorkerIterate \/ WorkerThrows \/ WorkerWake

\* the game resolves every ns.sleep and runs every script's continuation
SpecWorkers ==
    InitWorkers /\ [][NextWorkers]_vars
        /\ WF_vars(WorkerExit) /\ WF_vars(WorkerWake)

----------------------------------------------------------------------------
(* Properties of the single-action loops *)

\* the iteration that ran last issued ns.hack
Hacked == \E k \in DOMAIN iter.ops : iter.ops[k] = "hack"

\* what the iteration of worker.js that ran last read allows a hack:
\* security within 2.0 of the minimum, money at 90 % of the maximum or
\* more, a positive yield per thread and a chance of 0.20 or more
HackSafe ==
    /\ iter.snap.sec <= iter.snap.minSec + 20
    /\ iter.snap.money * 100 >= iter.snap.maxMoney * 90
    /\ iter.snap.steal > 0
    /\ iter.snap.chance >= 20

\* the iteration that ran last read no yield per thread, or no chance
NoYield == iter.snap.steal <= 0 \/ iter.snap.chance <= 0

\* the iteration that ran last came to the hack decision of line 96:
\* security within 2.0 of the minimum and money at 85 % of the maximum or
\* more
AtHackDecision ==
    /\ iter.snap.sec <= iter.snap.minSec + 20
    /\ iter.snap.money * 100 >= iter.snap.maxMoney * 85

C37_EndsOnlyAtCheck ==
    /\ [](wscript = "worker-simple" => wpc # "done")
    /\ [](wpc = "errsleep" =>
             /\ iter.threw
             /\ iter.sleep = ErrorSleep(wscript))
    /\ [][(wpc' = "done" /\ wpc # "done")
             => (wpc = "head" /\ ~world.exists)]_vars
    /\ [][(wpc = "head" /\ ~world.exists /\ wscript # "worker-simple")
             => wpc' = "done"]_vars
    /\ [][wpc = "errsleep" => wpc' = "head"]_vars
    /\ (wscript # "worker-simple")
          => ((<>[](~world.exists)) => <>(wpc = "done"))

\* C37 witness: weaken-loop.js returned, its target missing
C37_Witness ==
    /\ wscript = "weaken-loop"
    /\ wpc = "done"
    /\ ~world.exists

----------------------------------------------------------------------------
(* contract-runner.js: the cycles of the runner on one host.  A cycle has no
   await between its ns.ls and its sleep, so it is one step.  Contract files
   are numbered in the order ns.ls lists them; Date.now() is the number of
   the cycle, the cycles being 60 s apart. *)

\* contract files the host can hold at once
MaxContracts == 2

\* cycles the runner is followed for
MaxRunnerCycles == 3

\* ns.getHostname() (line 15)
RunnerHost == "n00dles"

\* the .cct files of the host, as ns.ls(host) orders them
ContractFiles == 1 .. MaxContracts

\* line 34: { server, file, time, type }
Entry(server, file, time, type) ==
    [server |-> server, file |-> file, time |-> time, type |-> type]

\* OUTPUT does not exist: ns.read returns ""
Absent == [kind |-> "absent"]

\* OUTPUT holds text that is not JSON
Garbage == [kind |-> "garbage"]

\* line 51: JSON.stringify(existing, null, 2), the text of an array of
\* entries
Stringify(existing) == [kind |-> "json", entries |-> existing]

\* lines 43-47: raw ? JSON.parse(raw) : [], and [] when the parse throws
ReadLog(f) == IF f.kind = "json" THEN f.entries ELSE <<>>

\* a dedupe test that never finds the pair
KnownNever(existing, server, file) == FALSE

\* line 49: existing.some(x => x.server === data.server && x.file === data.file)
Known(existing, server, file) ==
    \E i \in 1 .. Len(existing) :
        existing[i].server = server /\ existing[i].file = file

\* the files of S in the order of ns.ls
RECURSIVE Listing(_)
Listing(S) ==
    IF S = {} THEN <<>>
    ELSE LET c == CHOOSE x \in S : \A y \in S : x <= y
         IN  <<c>> \o Listing(S \ {c})

\* a cycle: its number, the contracts found, whether the solver is on home,
\* the contracts whose ns.exec or ns.write throws, and what was done with
\* each contract
Run(k, contracts, solver, errs, outcomes) ==
    [k |-> k, contracts |-> contracts, solver |-> solver, errs |-> errs,
     outcomes |-> outcomes]

\* the file, the ns.exec calls issued and the outcomes so far
Handled(log, execd, outcomes) ==
    [log |-> log, execd |-> execd, outcomes |-> outcomes]

\* lines 26-57: one contract c.  With the solver it is launched; without,
\* it is appended to the file unless its pair is there.  A throw of ns.exec
\* or ns.write is caught at line 55.
HandleContract(st, c, solver, throws, type, now) ==
    IF solver
    THEN IF throws
         THEN [st EXCEPT !.outcomes = Append(@, "error")]
         ELSE [st EXCEPT !.execd = Append(@, <<RunnerHost, c>>),
                         !.outcomes = Append(@, "launched")]
    ELSE LET existing == ReadLog(st.log)
         IN  IF Known(existing, RunnerHost, c)
             THEN [st EXCEPT !.outcomes = Append(@, "known")]
             ELSE IF throws
                  THEN [st EXCEPT !.outcomes = Append(@, "error")]
                  ELSE [st EXCEPT
                           !.log = Stringify(Append(existing,
                                       Entry(RunnerHost, c, now, type))),
                           !.outcomes = Append(@, "logged")]

\* lines 25-58: the loop over the contracts found
RECURSIVE HandleAll(_, _, _, _, _, _)
HandleAll(st, cs, solver, errs, type, now) ==
    IF cs = <<>> THEN st
    ELSE HandleAll(HandleContract(st, Head(cs), solver, Head(cs) \in errs,
                                  type, now),
                   Tail(cs), solver, errs, type, now)

\* the variables the runner leaves alone
RunnerRest == <<pvars, controller, sel, prevSel, targets, host, asg, prevAsg,
                clock, serverLastDeploy, lastGlobalBuy, procs, cancelled,
                fvars, wvars, hn>>

\* the file is missing, is not JSON, or holds an entry copied from home
InitRunner ==
    /\ PlannerOff
    /\ ControllersOff
    /\ FleetIdle
    /\ WorkerIdle
    /\ HacknetIdle
    /\ logfile \in { Absent, Garbage, Stringify(<<Entry("home", 1, 0, "")>>) }
    /\ launched = <<>>
    /\ runs = Run(0, <<>>, FALSE, {}, <<>>)

\* lines 15-59: a cycle that finds contracts
RunnerCycle ==
    /\ runs.k < MaxRunnerCycles
    /\ \E S \in SUBSET ContractFiles \ { {} }, solver \in BOOLEAN,
          type \in { "", "Total Ways to Sum" } :
          \E errs \in SUBSET S :
             LET now == runs.k + 1
                 st == HandleAll(Handled(logfile, <<>>, <<>>), Listing(S),
                                 solver, errs, type, now)
             IN  /\ logfile' = st.log
                 /\ launched' = st.execd
                 /\ runs' = Run(now, Listing(S), solver, errs, st.outcomes)
    /\ UNCHANGED RunnerRest

\* lines 18-22: no contract on the host
RunnerNothing ==
    /\ runs.k < MaxRunnerCycles
    /\ runs' = Run(runs.k + 1, <<>>, FALSE, {}, <<>>)
    /\ launched' = <<>>
    /\ UNCHANGED <<logfile, RunnerRest>>

\* lines 60-63: ns.getHostname, ns.ls or ns.fileExists throws
RunnerThrows ==
    /\ runs.k < MaxRunnerCycles
    /\ runs' = Run(runs.k + 1, <<>>, FALSE, {}, <<>>)
    /\ launched' = <<>>
    /\ UNCHANGED <<logfile, RunnerRest>>

NextRunner == RunnerCycle \/ RunnerNothing \/ RunnerThrows

SpecRunner == InitRunner /\ [][NextRunner]_vars

\* the file holds the pair of the host and contract c
InLog(f, c) ==
    \E i \in 1 .. Len(ReadLog(f)) :
        ReadLog(f)[i].server = RunnerHost /\ ReadLog(f)[i].file = c

\* C38: every contract found in a cycle and handled without an error is
\* launched and not logged when the solver is on home, and is in the file
\* and not launched when it is not; an error on one contract leaves the
\* others handled; the file never holds a pair twice; and a cycle keeps
\* the entries of the file as they are, adding at its end
C38_LaunchOrLog ==
    /\ [](\A i, j \in 1 .. Len(ReadLog(logfile)) :
             (/\ ReadLog(logfile)[i].server = ReadLog(logfile)[j].server
              /\ ReadLog(logfile)[i].file = ReadLog(logfile)[j].file)
                => i = j)
    /\ [][/\ Len(ReadLog(logfile')) >= Len(ReadLog(logfile))
          /\ SubSeq(ReadLog(logfile'), 1, Len(ReadLog(logfile)))
                = ReadLog(logfile)]_vars
    /\ [][runs'.k > runs.k =>
             /\ Len(runs'.outcomes) = Len(runs'.contracts)
             /\ \A i \in 1 .. Len(runs'.contracts) :
                   LET c == runs'.contracts[i]
                       execd == \E n \in 1 .. Len(launched') :
                                   launched'[n] = <<RunnerHost, c>>
                   IN  runs'.outcomes[i] # "error" =>
                          IF runs'.solver
                          THEN execd /\ (InLog(logfile', c) => InLog(logfile, c))
                          ELSE ~execd /\ InLog(logfile', c)]_vars

\* C38 witness: a cycle without the solver in which the handling of the
\* first contract threw and the second contract was logged
C38_Witness ==
    /\ runs.outcomes = <<"error", "logged">>
    /\ InLog(logfile, 2)
    /\ ~InLog(logfile, 1)

----------------------------------------------------------------------------
(* hacknet-manager-silent.js (part_001 lines 190-463): the budget of a cycle
   and the loop of lines 361-428 that executes the viable options.  A cycle
   has no await before its sleep.  Money is in units of $1000.  The options
   of `viable` are taken as they come: whatever lines 278-356 put into the
   list, the loop treats each option as below. *)

\* line 223: RESERVED_CASH_PCT 0.20, in percent
RESERVED_CASH_PCT == 20

\* line 224: BUDGET_RATIO 0.70, in percent
BUDGET_RATIO == 70

\* line 225
MAX_ACTIONS_PER_CYCLE == 6

\* line 227
MAX_NODE_LEVEL_UP_AT_ONCE == 10

\* line 228
MAX_NODE_RAM_UP_AT_ONCE == 4

\* line 229
MAX_NODE_CORE_UP_AT_ONCE == 4

\* line 271: 1e6
BUDGET_FLOOR == 1000

\* options of `viable` a cycle gets to before its list ends
MaxOptions == 2

\* ns.getServerMoneyAvailable("home"): nothing, $1.7m and $1.8m (budgets
\* just below and above 1e6), $10m
HomeMoneySet == { 0, 1700, 1800, 10000 }

\* lines 267-269: Math.max(0, (homeMoney - reserved) * BUDGET_RATIO)
Budget(homeMoney) ==
    Max(0, ((homeMoney - (homeMoney * RESERVED_CASH_PCT) \div 100)
               * BUDGET_RATIO) \div 100)

\* an option of `viable` and what the game answers while it is executed:
\* its cost when the list was built, the rise of the fresh cost with each
\* upgrade applied, the attempt at which purchaseNode returns -1 or
\* upgradeX returns false (99: none), and whether its payback is beyond
\* MAX_PAYBACK_SECONDS
Option(type, cost, step, failAt, long) ==
    [type |-> type, cost |-> cost, step |-> step, failAt |-> failAt,
     long |-> long]

\* line 342: without --aggressive the options of long payback are filtered
\* out of `viable`
OptionSet(aggressive) ==
    { Option(type, cost, step, failAt, long) :
        type \in { "purchase", "level", "ram", "core" },
        cost \in { 300, 6000 },
        step \in { 0, 50 },
        failAt \in { 0, 2, 99 },
        long \in IF aggressive THEN BOOLEAN ELSE { FALSE } }

\* the bound of the inner loops of lines 383, 399, 415
UpAtOnce(type) ==
    CASE type = "level" -> MAX_NODE_LEVEL_UP_AT_ONCE
      [] type = "ram" -> MAX_NODE_RAM_UP_AT_ONCE
      [] type = "core" -> MAX_NODE_CORE_UP_AT_ONCE

\* an action limit that is never reached
ActionsExhaustedNever(h) == FALSE

\* lines 362, 391, 407, 423: actions >= CFG.MAX_ACTIONS_PER_CYCLE
ActionsExhausted(h) == h.actions >= MAX_ACTIONS_PER_CYCLE

\* lines 373-374, 388-390: budget -= cost; actions++
Spend(h, type, cost) ==
    [h EXCEPT !.executed = Append(@, [type |-> type, cost |-> cost,
                                      before |-> h.budget]),
              !.budget = @ - cost,
              !.actions = @ + 1]

\* lines 383-392 (399-408, 415-424): the upgrades of one option, from the
\* k-th on, each at the cost the game asks then
RECURSIVE Upgrades(_, _, _)
Upgrades(h, opt, k) ==
    IF k >= UpAtOnce(opt.type) THEN h
    ELSE LET cost == opt.cost + k * opt.step
         IN  IF cost <= 0 \/ cost > h.budget THEN h
             ELSE IF k = opt.failAt THEN h
             ELSE LET h2 == Spend(h, opt.type, cost)
                  IN  IF ActionsExhausted(h2) THEN h2
                      ELSE Upgrades(h2, opt, k + 1)

\* lines 363-427: one option of the list
ExecuteOption(h, opt) ==
    IF opt.cost > h.budget THEN h
    ELSE IF ~h.aggressive /\ opt.long THEN h
    ELSE IF opt.type = "purchase"
         THEN IF opt.failAt = 0 THEN h
              ELSE Spend(h, opt.type, opt.cost)
         ELSE Upgrades(h, opt, 0)

\* a cycle of budget b: in its sleep or in the loop of line 361, with the
\* actions executed so far
HacknetCycle(at, aggressive, b) ==
    [at |-> at, aggressive |-> aggressive, budget0 |-> b, budget |-> b,
     actions |-> 0, considered |-> 0, executed |-> <<>>]

\* the variables the hacknet manager leaves alone
HacknetRest == <<pvars, controller, sel, prevSel, targets, host, asg,
                 prevAsg, clock, serverLastDeploy, lastGlobalBuy, procs,
                 cancelled, fvars, wvars, kvars>>

\* started with or without --aggressive
InitHacknet ==
    /\ PlannerOff
    /\ ControllersOff
    /\ FleetIdle
    /\ WorkerIdle
    /\ RunnerIdle
    /\ \E aggressive \in BOOLEAN : hn = HacknetCycle("sleep", aggressive, 0)

\* lines 267-275: the budget is below 1e6: the cycle sleeps
HacknetTooPoor ==
    /\ hn.at = "sleep"
    /\ \E money \in HomeMoneySet :
          /\ Budget(money) < BUDGET_FLOOR
          /\ hn' = HacknetCycle("sleep", hn.aggressive, Budget(money))
    /\ UNCHANGED HacknetRest

\* lines 267-358: the budget is 1e6 or more: the list is built
HacknetBegin ==
    /\ hn.at = "sleep"
    /\ \E money \in HomeMoneySet :
          /\ Budget(money) >= BUDGET_FLOOR
          /\ hn' = HacknetCycle("loop", hn.aggressive, Budget(money))
    /\ UNCHANGED HacknetRest

\* lines 361-428: the next option of the list, unless the break of line 362
HacknetOption ==
    /\ hn.at = "loop"
    /\ hn.considered < MaxOptions
    /\ ~ActionsExhausted(hn)
    /\ \E opt \in OptionSet(hn.aggressive) :
          hn' = [ExecuteOption(hn, opt) EXCEPT !.considered = @ + 1]
    /\ UNCHANGED HacknetRest

\* lines 430-435: the list is at its end, or line 362 broke the loop, or a
\* call threw: the cycle sleeps
HacknetSleeps ==
    /\ hn.at = "loop"
    /\ hn' = [hn EXCEPT !.at = "sleep"]
    /\ UNCHANGED HacknetRest

NextHacknet ==
    HacknetTooPoor \/ HacknetBegin \/ HacknetOption \/ HacknetSleeps

SpecHacknet == InitHacknet /\ [][NextHacknet]_vars

\* C39: in every cycle of the hacknet manager at most MAX_ACTIONS_PER_CYCLE
\* actions are executed, each at a cost not above the budget that remained
\* before it, so that the remaining budget is never negative, and none is
\* executed in a cycle whose budget is below 1e6
C39_BudgetAndActionLimit ==
    /\ Len(hn.executed) <= 6
    /\ hn.actions = Len(hn.executed)
    /\ hn.budget >= 0
    /\ \A i \in 1 .. Len(hn.executed) :
          /\ hn.executed[i].cost <= hn.executed[i].before
          /\ hn.executed[i].before <= hn.budget0
    /\ hn.budget0 < 1000 => hn.executed = <<>>

\* C39 witness: a cycle executed six actions and sleeps
C39_Witness ==
    /\ hn.at = "sleep"
    /\ Len(hn.executed) = 6

====
